---- MODULE Spec2Model ----
(***************************************************************************)
(* Greybus connection management (drivers/staging/greybus/connection.c):   *)
(* CPort id allocation, the per-host and per-interface connection lists,   *)
(* connection teardown and the per-connection operation-id counter; and    *)
(* Greybus module manifest parsing (drivers/staging/greybus/manifest.c);   *)
(* and the low memory killer's shrinker scan                               *)
(* (drivers/staging/android/lowmemorykiller.c).                            *)
(*                                                                         *)
(* Spec follows threads that call gb_connection_create and                 *)
(* gb_connection_destroy concurrently, one shared-memory access (or one    *)
(* lock operation together with the list operation next to it) per step.   *)
(* SpecOpId follows the calls of gb_connection_op_id on one connection.    *)
(* SpecHosts is Spec with the modules spread over several host devices.    *)
(* SpecManifest follows one call of gb_manifest_parse on a buffer,         *)
(* SpecManifestFair the same call when it is always scheduled again, and   *)
(* SpecConcurrent two calls that run at the same time.                     *)
(* SpecLowmem follows one call of lowmem_scan.                             *)
(* SpecUrb follows the threads that take a CPort out urb from the pool of  *)
(* drivers/staging/greybus/es1-ap-usb.c, submit it and see it complete,    *)
(* and SpecUrbFair the same when every submission and completion that can  *)
(* happen does happen.                                                     *)
(***************************************************************************)
EXTENDS Integers, Sequences, FiniteSets, TLC

(* ------------------------------ bounds --------------------------------- *)

\* Number of concurrent callers of the connection API.
NumThreads == 2
\* Number of struct gb_connection objects the heap can hold at once.
MaxConns == 3
\* Number of host devices and of interfaces.
NumHosts == 2
NumInterfaces == 2
\* Size of a host's CPort id space, [0, HOST_DEV_CPORT_ID_MAX).
HOST_DEV_CPORT_ID_MAX == 2
\* Number of gb_connection_op_id calls followed on one connection.
MaxOpCalls == 65540
\* The observed window of consecutive calls starts at one of the first
\* MaxWindowStart calls.
MaxWindowStart == 2

\* Number of CPort OUT urbs of the pool (8 in es1-ap-usb.c), and number of
\* urbs allocated outside the pool that can exist at once.
NUM_CPORT_OUT_URB == 2
MaxDynamicUrbs == 1

(* --------------------------- program constants ------------------------- *)

U16_MAX == 65535

Threads == 1..NumThreads
Conns == 1..MaxConns
Hosts == 1..NumHosts
Interfaces == 1..NumInterfaces
\* The null pointer.
NULL == 0
\* gb_connections_lock when nobody holds it.
Unlocked == 0
\* The cport_id and protocol arguments of gb_connection_create: the function
\* stores them in the connection and never reads them.
RemoteCPortIds == {7}
Protocols == {"GREYBUS_PROTOCOL_VIBRATOR"}

VARIABLES
    gmod_hd,             \* interface->gmod->hd: the host behind an interface
    gb_connections_lock, \* holder of the global spinlock, or Unlocked
    cport_id_map,        \* hd->cport_id_map: ids allocated on each host
    hd_connections,      \* hd->connections: connections linked per host
    intf_connections,    \* interface->connections: linked per interface
    conn,                \* heap: the struct gb_connection objects
    held,                \* connections returned by create, not yet destroyed
    pc,                  \* position of each thread in create / destroy
    cur,                 \* each thread's local `connection' pointer
    args,                \* each thread's arguments of the call in progress
    warned,              \* WARN_ON fired in the thread's current destroy
    op_last,             \* value returned by the latest gb_connection_op_id
    op_prev,             \* value returned by the call before it
    op_calls,            \* number of gb_connection_op_id calls made
    op_first,            \* value returned by the first call of the window
    op_window,           \* calls made since the window started (0: not yet)
    manifest_descs,      \* the global list of struct manifest_desc
    parser,              \* each gb_manifest_parse call: arguments, locals,
                         \* position, result, and what was observed of it
    lmk,                 \* the lowmem_scan call: inputs, locals, position,
                         \* the processes killed and the value returned
    es1                  \* struct es1_ap_dev: the CPort OUT urb pool, the
                         \* urbs the USB core holds, the submit_gbuf callers

connVars == <<gmod_hd, gb_connections_lock, cport_id_map, hd_connections,
              intf_connections, conn, held, pc, cur, args, warned>>
opVars == <<op_last, op_prev, op_calls, op_first, op_window>>
mfVars == <<manifest_descs, parser>>
lmkVars == <<lmk>>
usbVars == <<es1>>
vars == <<connVars, opVars, mfVars, lmkVars, usbVars>>

\* The fields of the parses, one entry per parse.
\* The buffer each gb_manifest_parse call is given.
data == [p \in DOMAIN parser |-> parser[p].data]
\* Its `size': the buffer length, then the bytes left to scan.
size == [p \in DOMAIN parser |-> parser[p].size]
\* Its `desc': offset of the descriptor scanned next.
desc == [p \in DOMAIN parser |-> parser[p].desc]
\* Its `module_desc': the Module descriptor selected.
module_desc == [p \in DOMAIN parser |-> parser[p].module_desc]
\* The struct gb_module being assembled.
gmod == [p \in DOMAIN parser |-> parser[p].gmod]
\* Position of each parse.
ppc == [p \in DOMAIN parser |-> parser[p].ppc]
\* What each gb_manifest_parse call returned.
ret == [p \in DOMAIN parser |-> parser[p].ret]
\* The last message each parse printed.
msg == [p \in DOMAIN parser |-> parser[p].msg]
\* End of the bytes of its buffer each parse has read.
read_hi == [p \in DOMAIN parser |-> parser[p].read_hi]
\* An allocation failed during the parse.
nomem == [p \in DOMAIN parser |-> parser[p].nomem]
\* The error gb_string_get returned to the parse.
str_err == [p \in DOMAIN parser |-> parser[p].str_err]
\* Strings from kmemdup not yet freed by the parse.
kstrings == [p \in DOMAIN parser |-> parser[p].kstrings]
\* <<offset, size>> of each descriptor registered.
scanned == [p \in DOMAIN parser |-> parser[p].scanned]
\* What the buffer was generated from.
src == [p \in DOMAIN parser |-> parser[p].src]

\* A slot of the heap holding no object.  kzalloc hands out zeroed memory: a
\* zeroed list head is not an initialized (empty) list.
NoConn ==
    [alloc |-> FALSE, hd |-> NULL, interface |-> NULL, hd_cport_id |-> 0,
     interface_cport_id |-> 0, protocol |-> "", operations |-> "zeroed",
     op_cycle |-> 0]

NoArgs == [interface |-> NULL, cport_id |-> 0, protocol |-> ""]

\* No value returned yet.
NoId == 0 - 1

\* The (u16) cast.
U16(x) == x % 65536

Min(S) == CHOOSE x \in S : \A y \in S : x <= y

(* ------------------------------ list.h --------------------------------- *)

\* hd->connections and interface->connections are followed as the set of
\* connections linked on them: connection.c links at the tail and unlinks,
\* and never walks a list.
list_add_tail(list, c) == list \cup {c}

\* Variant that leaves the entry linked.
list_del_stay(list, c) == list

list_del(list, c) == list \ {c}

InList(list, c) == c \in list

\* connection->operations is followed only as far as connection.c reads it:
\* "zeroed" (never initialized), "empty", or "pending" (operations linked).
\* list_empty(head) is head->next == head, false of a zeroed head.
list_empty(ops) == ops = "empty"

(* ----------------------------- spinlock -------------------------------- *)

\* Mutant: the lock is taken without waiting for its holder to release it.
spin_lock_irq_nowait(t) == gb_connections_lock' = t

\* spin_lock_irq(&gb_connections_lock) by thread t: spins until it is free.
spin_lock_irq(t) ==
    /\ gb_connections_lock = Unlocked
    /\ gb_connections_lock' = t

spin_unlock_irq(t) == gb_connections_lock' = Unlocked

(* ------------------------------- ida ----------------------------------- *)

\* ida_simple_get(ida, start, end): the lowest free id in [start, end), or a
\* negative value when none is free.
ida_simple_get(map, start, end) ==
    LET free == {i \in start..(end - 1) : i \notin map}
    IN  IF free = {} THEN 0 - 1 ELSE Min(free)

ida_simple_remove(map, id) == map \ {id}

(* --------------------------- CPort id alloc ---------------------------- *)

\* Mutant: the id is taken from a fresh ida instead of the host's map.
hd_connection_hd_cport_id_alloc_fresh(map) ==
    ida_simple_get({}, 0, HOST_DEV_CPORT_ID_MAX)

\* Mutant: the search for a free id starts at 1 instead of 0.
hd_connection_hd_cport_id_alloc_from1(map) ==
    ida_simple_get(map, 1, HOST_DEV_CPORT_ID_MAX)

\* Mutant: the id is not returned to the host's map.
hd_connection_hd_cport_id_free_leak(map, id) == map

\* The id hd_connection_hd_cport_id_alloc obtains for a connection on a host
\* whose map is `map' (negative: failure).
hd_connection_hd_cport_id_alloc(map) ==
    ida_simple_get(map, 0, HOST_DEV_CPORT_ID_MAX)

\* The map after hd_connection_hd_cport_id_free of a connection holding id.
hd_connection_hd_cport_id_free(map, id) == ida_simple_remove(map, id)

\* kzalloc: the heap slot of a new object (NULL when memory is exhausted).
kzalloc == IF \E c \in Conns : ~conn[c].alloc
           THEN Min({c \in Conns : ~conn[c].alloc})
           ELSE NULL

(* ======================================================================= *)
(* Module manifest parsing (drivers/staging/greybus/manifest.c).           *)
(*                                                                         *)
(* SpecManifest follows one call of gb_manifest_parse on a buffer of       *)
(* bytes: the envelope checks, one call of identify_descriptor per step of *)
(* the scanning loop, the search for the module descriptor, the steps of   *)
(* gb_manifest_parse_module, and the release of the descriptor list.       *)
(* ======================================================================= *)

(* --------------------------- wire format ------------------------------- *)

\* sizeof(struct greybus_manifest_header): { size u16, major u8, minor u8 }.
sizeof_manifest_header == 4
\* sizeof(struct greybus_descriptor_header): { size u16, type u16 }.
sizeof_descriptor_header == 4
\* sizeof(struct greybus_descriptor_module): the payload
\* { vendor u16, product u16, version u16, vendor_stringid u8,
\*   product_stringid u8, serial_number u64 }.
sizeof_descriptor_module == 16
\* sizeof(struct greybus_descriptor_string): the prefix { id u8, length u16 }.
sizeof_descriptor_string == 3
\* sizeof(struct greybus_descriptor_cport): { number u16, speed u8, reserved u8 }.
sizeof_descriptor_cport == 4

\* enum greybus_descriptor_type as manifest.c uses it.
GREYBUS_TYPE_INVALID == 0
GREYBUS_TYPE_MODULE == 1
GREYBUS_TYPE_STRING == 2
GREYBUS_TYPE_CPORT == 4
GREYBUS_TYPE_FUNCTION == 5
GREYBUS_TYPE_DEVICE == 6
GREYBUS_TYPE_CLASS == 7

\* The highest manifest major version the parser accepts.
GREYBUS_VERSION_MAJOR == 1

\* Values an out-of-bounds read of the buffer can produce.
OobBytes == {0, 255}

\* The parse invocations.
Parsers == {1, 2}

\* Little-endian encodings.  A 64-bit value is held as four 16-bit limbs,
\* least significant first.
LE16(v) == <<v % 256, (v \div 256) % 256>>

LE64(w) == LE16(w[1]) \o LE16(w[2]) \o LE16(w[3]) \o LE16(w[4])

\* The byte at offset off of buf; oob when off lies outside the buffer.
Rd(buf, off, oob) == IF off >= 0 /\ off < Len(buf) THEN buf[off + 1] ELSE oob

le16_to_cpu(buf, off, oob) == Rd(buf, off, oob) + 256 * Rd(buf, off + 1, oob)

le64_to_cpu(buf, off, oob) ==
    <<le16_to_cpu(buf, off, oob), le16_to_cpu(buf, off + 2, oob),
      le16_to_cpu(buf, off + 4, oob), le16_to_cpu(buf, off + 6, oob)>>

Max(a, b) == IF a >= b THEN a ELSE b

\* A char * result: the null pointer, an ERR_PTR, or a string.
StrNull == [k |-> "NULL", s |-> <<>>]

ERR_PTR(e) == [k |-> e, s |-> <<>>]

StrVal(s) == [k |-> "str", s |-> s]

\* Variant that takes no pointer for an error.
IS_ERR_never(x) == FALSE

IS_ERR(x) == x.k \in {"ENOENT", "ENOMEM"}

\* A zeroed struct gb_module, and the slot of one that is not allocated.
ZeroSerial == <<0, 0, 0, 0>>

ZeroModule ==
    [alloc |-> TRUE, vendor_string |-> StrNull, product_string |-> StrNull,
     vendor |-> 0, product |-> 0, version |-> 0, serial_number |-> ZeroSerial]

NoModule == [ZeroModule EXCEPT !.alloc = FALSE]

\* What gb_manifest_parse has returned: nothing yet, NULL, or a module.
RetPending == [k |-> "pending", mod |-> NoModule]

RetNull == [k |-> "NULL", mod |-> NoModule]

RetModule(m) == [k |-> "gmod", mod |-> m]

(* ------------------------ manifests given to the parser ---------------- *)

\* Largest number of descriptors in a generated manifest.
MaxDescs == 3
\* Largest length of a vendor or product string.
MaxStrLen == 1
\* Largest number of descriptors added to the encoding of a module.
MaxExtras == 1

\* The bytes of one descriptor: its header, then its payload.
Descriptor(dsize, type, payload) == LE16(dsize) \o LE16(type) \o payload

ModulePayload(vendor, product, version, vsid, psid, serial) ==
    LE16(vendor) \o LE16(product) \o LE16(version) \o <<vsid, psid>>
        \o LE64(serial)

StringPayload(id, s) == <<id>> \o LE16(Len(s)) \o s

CPortPayload(number, speed, reserved) == LE16(number) \o <<speed, reserved>>

ModuleDescriptor(vendor, product, version, vsid, psid, serial) ==
    Descriptor(sizeof_descriptor_header + sizeof_descriptor_module,
               GREYBUS_TYPE_MODULE,
               ModulePayload(vendor, product, version, vsid, psid, serial))

StringDescriptor(id, s) ==
    Descriptor(sizeof_descriptor_header + sizeof_descriptor_string + Len(s),
               GREYBUS_TYPE_STRING, StringPayload(id, s))

CPortDescriptor(number) ==
    Descriptor(sizeof_descriptor_header + sizeof_descriptor_cport,
               GREYBUS_TYPE_CPORT, CPortPayload(number, 0, 0))

\* The envelope header of a manifest.
ManifestHeader(msize, major, minor) == LE16(msize) \o <<major, minor>>

\* A manifest: the header declares the length of the whole buffer plus
\* env.delta.
Manifest(env, body) ==
    ManifestHeader(sizeof_manifest_header + Len(body) + env.delta,
                   env.major, env.minor) \o body

\* The string ids the encoding of a module gives its two strings.
VendorStringId == 1
ProductStringId == 2

\* The wire encoding of a module description m: its Module descriptor, then
\* one String descriptor for each string it has.
EncodeModule(m) ==
    ModuleDescriptor(m.vendor, m.product, m.version,
                     IF m.vendor_string.k = "str" THEN VendorStringId ELSE 0,
                     IF m.product_string.k = "str" THEN ProductStringId ELSE 0,
                     m.serial_number)
        \o (IF m.vendor_string.k = "str"
            THEN StringDescriptor(VendorStringId, m.vendor_string.s)
            ELSE <<>>)
        \o (IF m.product_string.k = "str"
            THEN StringDescriptor(ProductStringId, m.product_string.s)
            ELSE <<>>)

SeqsUpTo(S, n) == UNION {[1..k -> S] : k \in 0..n}

\* Module descriptions: strings of 'a' for the vendor, of 'b' for the
\* product, each possibly absent.
Serials == {ZeroSerial, <<513, 0, 32768, 65535>>}

OptStrings(ch) == {StrNull} \cup {StrVal(s) : s \in SeqsUpTo({ch}, MaxStrLen)}

ValidModules ==
    {[ZeroModule EXCEPT !.vendor = 4660, !.product = 22136, !.version = 1,
                        !.serial_number = sn, !.vendor_string = vs,
                        !.product_string = ps] :
        sn \in Serials, vs \in OptStrings(97), ps \in OptStrings(98)}

\* The descriptors manifests are generated from, by name.  Each is the bytes
\* of a descriptor; the size its header declares may differ from the number
\* of bytes it occupies.
Template ==
    [m00 |-> ModuleDescriptor(4660, 22136, 1, 0, 0, ZeroSerial),
     m12 |-> ModuleDescriptor(4660, 22136, 1, 1, 2, ZeroSerial),
     m11 |-> ModuleDescriptor(4660, 22136, 1, 1, 1, ZeroSerial),
     \* a Module descriptor that declares, and occupies, only the size of
     \* its payload
     m16 |-> Descriptor(sizeof_descriptor_module, GREYBUS_TYPE_MODULE,
                 SubSeq(ModulePayload(4660, 22136, 1, 0, 0,
                                      <<513, 0, 32768, 65535>>),
                        1, sizeof_descriptor_module
                               - sizeof_descriptor_header)),
     \* a Module descriptor that declares one byte less than its payload
     m15 |-> Descriptor(sizeof_descriptor_module - 1, GREYBUS_TYPE_MODULE,
                 ModulePayload(4660, 22136, 1, 0, 0, ZeroSerial)),
     s1 |-> StringDescriptor(1, <<97>>),
     s2 |-> StringDescriptor(2, <<98>>),
     s3 |-> StringDescriptor(3, <<99>>),
     \* a String descriptor whose id is 0
     s0 |-> StringDescriptor(0, <<100>>),
     \* a String descriptor that declares one byte less than it needs
     sBad |-> Descriptor(sizeof_descriptor_header + sizeof_descriptor_string,
                  GREYBUS_TYPE_STRING, StringPayload(1, <<97>>)),
     c8 |-> CPortDescriptor(5),
     \* CPort descriptors that declare the payload size only, and less
     c4 |-> Descriptor(sizeof_descriptor_cport, GREYBUS_TYPE_CPORT, <<>>),
     c3 |-> Descriptor(sizeof_descriptor_cport - 1, GREYBUS_TYPE_CPORT, <<>>),
     \* Device descriptors that declare less than a header
     d2 |-> Descriptor(2, GREYBUS_TYPE_DEVICE, <<>>),
     d0 |-> Descriptor(0, GREYBUS_TYPE_DEVICE, <<>>),
     k4 |-> Descriptor(sizeof_descriptor_header, GREYBUS_TYPE_CLASS, <<>>),
     i4 |-> Descriptor(sizeof_descriptor_header, GREYBUS_TYPE_INVALID, <<>>),
     f12 |-> Descriptor(sizeof_descriptor_header + 8, GREYBUS_TYPE_FUNCTION,
                 <<1, 0, 2, 0, 0, 0, 0, 0>>),
     \* a Class descriptor that declares two bytes more than it occupies
     big6 |-> Descriptor(sizeof_descriptor_header + 2, GREYBUS_TYPE_CLASS,
                  <<>>)]

\* Descriptors the scan goes on after, and descriptors it stops at.
NonFatalNames ==
    {"m00", "m12", "m11", "m16", "s1", "s2", "c8", "c4", "d2", "k4", "big6"}

FatalNames == {"m15", "sBad", "c3", "d0", "i4", "f12"}

\* Descriptors no module of ValidModules refers to.
ExtraNames == {"s3", "s0", "c8"}

\* Sequences of at most n descriptors where only the last may be one the
\* scan stops at.
Shapes(n) ==
    SeqsUpTo(NonFatalNames, n)
        \cup {s \o <<f>> : s \in SeqsUpTo(NonFatalNames, n - 1),
                           f \in FatalNames}

RECURSIVE Layout(_)
Layout(shape) ==
    IF shape = <<>> THEN <<>>
    ELSE Template[Head(shape)] \o Layout(Tail(shape))

\* Envelopes: the declared size is the buffer length plus delta.
Envelopes ==
    [delta : {0 - 1, 0, 1}, major : 0..(GREYBUS_VERSION_MAJOR + 1),
     minor : {0, 1}]

EnvDefault == [delta |-> 0, major |-> GREYBUS_VERSION_MAJOR, minor |-> 0]

ValidEnvelopes == {e \in Envelopes : e.delta = 0
                                     /\ e.major <= GREYBUS_VERSION_MAJOR}

\* What a buffer was generated from.
NoSrc ==
    [kind |-> "none", m |-> NoModule, pre |-> <<>>, post |-> <<>>,
     shape |-> <<>>, env |-> EnvDefault, len |-> 0]

\* The encoding of module m, with descriptors no module refers to before
\* and after it.
SrcModule(m, pre, post, env) ==
    [NoSrc EXCEPT !.kind = "module", !.m = m, !.pre = pre, !.post = post,
                  !.env = env]

\* A sequence of descriptors.
SrcShape(shape, env) ==
    [NoSrc EXCEPT !.kind = "shape", !.shape = shape, !.env = env]

\* The first len bytes of a sequence of descriptors.
SrcShort(shape, env, len) ==
    [NoSrc EXCEPT !.kind = "short", !.shape = shape, !.env = env,
                  !.len = len]

BufferOf(s) ==
    IF s.kind = "module"
    THEN Manifest(s.env, Layout(s.pre) \o EncodeModule(s.m) \o Layout(s.post))
    ELSE IF s.kind = "shape"
    THEN Manifest(s.env, Layout(s.shape))
    ELSE IF s.kind = "short"
    THEN SubSeq(Manifest(s.env, Layout(s.shape)), 1, s.len)
    ELSE <<>>

\* The manifests of at most n descriptors, or of a module and at most x
\* more descriptors on each side of it.
Sources(n, x) ==
    {SrcModule(m, pre, post, env) :
        m \in ValidModules, pre \in SeqsUpTo(ExtraNames, x),
        post \in SeqsUpTo(ExtraNames, x), env \in ValidEnvelopes}
    \cup {SrcShape(shape, EnvDefault) : shape \in Shapes(n)}
    \cup {SrcShape(shape, env) :
            shape \in SeqsUpTo(NonFatalNames \cup FatalNames, n - 2),
            env \in Envelopes}
    \cup {SrcShort(shape, env, len) :
            shape \in {<<>>, <<"m00">>}, env \in Envelopes,
            len \in 0..sizeof_manifest_header}

(* ---------------------------- manifest_descs --------------------------- *)

\* A struct manifest_desc: addr is where kzalloc put it, buf and data say
\* which buffer and which offset its data pointer points to.
ManifestDesc(addr, p, off, dsize, type) ==
    [addr |-> addr, buf |-> p, data |-> off, size |-> dsize, type |-> type]

\* The address kzalloc gives the next struct manifest_desc.
kzalloc_desc(descs) ==
    Min({a \in 1..(Len(descs) + 1) :
            \A i \in 1..Len(descs) : descs[i].addr # a})

\* list_add_tail(&descriptor->links, &manifest_descs)
descs_add_tail(descs, d) == Append(descs, d)

\* Variant that leaves the descriptor in the list.
release_manifest_descriptor_keep(descs, addr) == descs

\* release_manifest_descriptor(descriptor): list_del and kfree.
release_manifest_descriptor(descs, addr) ==
    SelectSeq(descs, LAMBDA d : d.addr # addr)

\* Variant that releases nothing.
release_manifest_descriptors_none(descs) == descs

\* release_manifest_descriptors(): every descriptor of the list is released.
release_manifest_descriptors(descs) == <<>>

(* -------------------------- identify_descriptor ------------------------ *)

\* The checks of identify_descriptor on the descriptor at offset d of buf
\* with sz bytes remaining: rc is "ok" or the errno, msg the message printed,
\* hi the end of the bytes read.
IdResult(rc, m, dsize, type, hi) ==
    [rc |-> rc, msg |-> m, desc_size |-> dsize, type |-> type, hi |-> hi]

\* Variant that accepts every Module descriptor size.
expected_size_nomodule(type, slen) ==
    IF type = GREYBUS_TYPE_STRING
    THEN sizeof_descriptor_header + sizeof_descriptor_string + slen
    ELSE IF type = GREYBUS_TYPE_CPORT THEN sizeof_descriptor_cport
    ELSE 0

\* The smallest size identify_descriptor accepts for a descriptor of the
\* given type whose string length field holds slen.
expected_size(type, slen) ==
    IF type = GREYBUS_TYPE_MODULE THEN sizeof_descriptor_module
    ELSE IF type = GREYBUS_TYPE_STRING
    THEN sizeof_descriptor_header + sizeof_descriptor_string + slen
    ELSE IF type = GREYBUS_TYPE_CPORT THEN sizeof_descriptor_cport
    ELSE 0

too_small_msg(type) ==
    IF type = GREYBUS_TYPE_MODULE THEN "module descriptor too small"
    ELSE IF type = GREYBUS_TYPE_STRING THEN "string descriptor too small"
    ELSE "cport descriptor too small"

\* Variant that lets every declared size through.
too_big_never(desc_size, sz) == FALSE

\* The declared size exceeds the bytes that remain (line 70).
too_big(desc_size, sz) == desc_size > sz

\* Variant that finds no type invalid.
invalid_type_none(type) == FALSE

\* The type has no case label in the switch and reaches `default`
\* (lines 105-108).
invalid_type(type) ==
    type \notin {GREYBUS_TYPE_MODULE, GREYBUS_TYPE_DEVICE, GREYBUS_TYPE_CLASS,
                 GREYBUS_TYPE_STRING, GREYBUS_TYPE_CPORT}

identify_descriptor(buf, d, sz, oob) ==
    IF sz < sizeof_descriptor_header
    THEN IdResult("EINVAL", "manifest too small", 0, 0, 0)
    ELSE
      LET desc_size == le16_to_cpu(buf, d, oob)
          type == le16_to_cpu(buf, d + 2, oob)
          slen == le16_to_cpu(buf, d + sizeof_descriptor_header + 1, oob)
          hdr_hi == d + sizeof_descriptor_header
          str_hi == d + sizeof_descriptor_header + sizeof_descriptor_string
      IN
        IF too_big(desc_size, sz)
        THEN IdResult("EINVAL", "descriptor too big", desc_size, type, d + 2)
        ELSE IF invalid_type(type)
        THEN IdResult("EINVAL", "invalid descriptor type", desc_size, type,
                      hdr_hi)
        ELSE IF type \in {GREYBUS_TYPE_MODULE, GREYBUS_TYPE_CPORT}
        THEN IF desc_size < expected_size(type, 0)
             THEN IdResult("EINVAL", too_small_msg(type), desc_size, type,
                           hdr_hi)
             ELSE IdResult("ok", "", desc_size, type, hdr_hi)
        ELSE IF type = GREYBUS_TYPE_STRING
        THEN IF desc_size < expected_size(type, slen)
             THEN IdResult("EINVAL", too_small_msg(type), desc_size, type,
                           str_hi)
             ELSE IdResult("ok", "", desc_size, type, str_hi)
        ELSE IF type = GREYBUS_TYPE_CLASS
        THEN IdResult("ok", "class descriptor found (ignoring)", desc_size,
                      type, hdr_hi)
        ELSE IdResult("ok", "", desc_size, type, hdr_hi)

(* ----------------------------- gb_string_get --------------------------- *)

\* The list_for_each_entry loop of gb_string_get: the position in the list
\* of the first String descriptor whose id is string_id, 0 if there is none.
find_string(descs, bufs, string_id) ==
    LET hits == {i \in 1..Len(descs) :
                    /\ descs[i].type = GREYBUS_TYPE_STRING
                    /\ Rd(bufs[descs[i].buf],
                          descs[i].data + sizeof_descriptor_header, 0)
                           = string_id}
    IN IF hits = {} THEN 0 ELSE Min(hits)

\* The length field of the String descriptor d.
string_length(bufs, d) ==
    le16_to_cpu(bufs[d.buf], d.data + sizeof_descriptor_header + 1, 0)

\* The offset of the first byte of the string of the String descriptor d.
string_start(d) ==
    d.data + sizeof_descriptor_header + sizeof_descriptor_string

\* Variant that drops the last byte of the string.
kmemdup_string_short(bufs, d) ==
    [i \in 1..(string_length(bufs, d) - 1) |->
        Rd(bufs[d.buf], string_start(d) + i - 1, 0)]

\* kmemdup(&desc_string->string, length + 1) followed by
\* string[length] = '\0': the string holds the length bytes copied before the
\* terminator.
kmemdup_string(bufs, d) ==
    [i \in 1..string_length(bufs, d) |->
        Rd(bufs[d.buf], string_start(d) + i - 1, 0)]

\* The end of the bytes kmemdup reads.
kmemdup_hi(bufs, d) == string_start(d) + string_length(bufs, d) + 1

\* Variant that looks every id up in the list.
no_string_never(string_id) == FALSE

\* The id that names no string (lines 142-143).
no_string(string_id) == string_id = 0

\* gb_string_get(string_id) when kmemdup succeeds (mem) or fails: the
\* value returned, the list afterwards, and the end of the bytes read from
\* the buffer of parser p.
gb_string_get(descs, bufs, p, string_id, mem) ==
    IF no_string(string_id)
    THEN [val |-> StrNull, descs |-> descs, hi |-> 0]
    ELSE LET i == find_string(descs, bufs, string_id) IN
         IF i = 0
         THEN [val |-> ERR_PTR("ENOENT"), descs |-> descs, hi |-> 0]
         ELSE IF ~mem
         THEN [val |-> ERR_PTR("ENOMEM"), descs |-> descs, hi |-> 0]
         ELSE [val |-> StrVal(kmemdup_string(bufs, descs[i])),
               descs |-> release_manifest_descriptor(descs, descs[i].addr),
               hi |-> IF descs[i].buf = p THEN kmemdup_hi(bufs, descs[i])
                      ELSE 0]

(* --------------------------- gb_manifest_parse ------------------------- *)

NoDesc == ManifestDesc(0, 0, 0, 0, GREYBUS_TYPE_INVALID)

\* A call of gb_manifest_parse that has not been made.
NoParse ==
    [data |-> <<>>, size |-> 0, desc |-> 0, module_desc |-> NoDesc,
     gmod |-> NoModule, ppc |-> "off", ret |-> RetPending, msg |-> "",
     read_hi |-> 0, nomem |-> FALSE, str_err |-> "", kstrings |-> 0,
     scanned |-> <<>>, src |-> NoSrc]

\* No call of gb_manifest_parse exists and the list is empty.
InitManifestIdle ==
    /\ manifest_descs = <<>>
    /\ parser = <<>>

\* Parser 1 enters gb_manifest_parse(data, size) on a buffer generated from
\* one of the given sources, whose length is size; the descriptor list is
\* empty.
InitManifestOn(sources) ==
    /\ manifest_descs = <<>>
    /\ \E s \in sources :
          parser = [p \in Parsers |->
                       IF p = 1
                       THEN [NoParse EXCEPT !.src = s,
                                            !.data = BufferOf(s),
                                            !.size = Len(BufferOf(s)),
                                            !.ppc = "start"]
                       ELSE NoParse]

InitManifest == InitManifestOn(Sources(MaxDescs, MaxExtras))

\* pr_err / pr_info: msg holds the last message the parse printed.
pr_err(p, m) == IF m = "" THEN msg[p] ELSE m

\* gb_manifest_parse returns NULL before it has touched the list.
ReturnNull(p, m, hi) ==
    /\ parser' = [parser EXCEPT ![p].ppc = "done",
                                ![p].ret = RetNull,
                                ![p].msg = m,
                                ![p].read_hi = Max(@, hi)]
    /\ UNCHANGED manifest_descs

\* The scan begins: desc points after the header and size counts the bytes
\* after it.
StartScan(p) ==
    /\ parser' = [parser EXCEPT ![p].desc = sizeof_manifest_header,
                                ![p].size = @ - sizeof_manifest_header,
                                ![p].ppc = "scan",
                                ![p].read_hi = 3]
    /\ UNCHANGED manifest_descs

\* Variant of the envelope checks without the version check.
ValidateEnvelope_anyversion(p) ==
    /\ ppc[p] = "start"
    /\ IF size[p] <= sizeof_manifest_header
       THEN ReturnNull(p, "short manifest", 0)
       ELSE IF le16_to_cpu(data[p], 0, 0) # size[p]
       THEN ReturnNull(p, "manifest size mismatch", 2)
       ELSE StartScan(p)
    /\ UNCHANGED <<connVars, opVars, lmkVars, usbVars>>

\* Variant of the envelope checks without the size comparison.
ValidateEnvelope_anysize(p) ==
    /\ ppc[p] = "start"
    /\ IF size[p] <= sizeof_manifest_header
       THEN ReturnNull(p, "short manifest", 0)
       ELSE IF Rd(data[p], 2, 0) > GREYBUS_VERSION_MAJOR
       THEN ReturnNull(p, "manifest version too new", sizeof_manifest_header)
       ELSE StartScan(p)
    /\ UNCHANGED <<connVars, opVars, lmkVars, usbVars>>

\* Variant of the envelope checks that reads the size field first.
ValidateEnvelope_sizefirst(p) ==
    /\ ppc[p] = "start"
    /\ IF le16_to_cpu(data[p], 0, 0) # size[p]
       THEN ReturnNull(p, "manifest size mismatch", 2)
       ELSE IF size[p] <= sizeof_manifest_header
       THEN ReturnNull(p, "short manifest", 2)
       ELSE IF Rd(data[p], 2, 0) > GREYBUS_VERSION_MAJOR
       THEN ReturnNull(p, "manifest version too new", sizeof_manifest_header)
       ELSE StartScan(p)
    /\ UNCHANGED <<connVars, opVars, lmkVars, usbVars>>

\* The envelope checks of gb_manifest_parse: at least the header, the
\* declared size equal to the size passed in, the major version supported.
ValidateEnvelope(p) ==
    /\ ppc[p] = "start"
    /\ IF size[p] <= sizeof_manifest_header
       THEN ReturnNull(p, "short manifest", 0)
       ELSE IF le16_to_cpu(data[p], 0, 0) # size[p]
       THEN ReturnNull(p, "manifest size mismatch", 2)
       ELSE IF Rd(data[p], 2, 0) > GREYBUS_VERSION_MAJOR
       THEN ReturnNull(p, "manifest version too new", sizeof_manifest_header)
       ELSE StartScan(p)
    /\ UNCHANGED <<connVars, opVars, lmkVars, usbVars>>

\* Variant of the test that lets a descriptor of size zero through.
scan_failed_never(desc_size) == desc_size < 0

\* The test of identify_descriptor's result in the scanning loop (line 275):
\* a negative errno or a size of zero ends the scan.
scan_failed(desc_size) == desc_size <= 0

\* Variant that advances by a whole header at least.
scan_advance_header(desc_size) == Max(desc_size, sizeof_descriptor_header)

\* The number of bytes desc moves forward by, and size goes down by, after a
\* descriptor of the given size (lines 280-281).
scan_advance(desc_size) == desc_size

\* One iteration of the scanning loop: identify_descriptor(desc, size), with
\* its kzalloc succeeding (mem) or failing, then the test of its result and
\* the advance of desc and size.
ScanStep(p) ==
    /\ ppc[p] = "scan"
    /\ size[p] # 0
    /\ \E oob \in OobBytes, mem \in BOOLEAN :
         LET r == identify_descriptor(data[p], desc[p], size[p], oob)
             d == ManifestDesc(kzalloc_desc(manifest_descs), p, desc[p],
                               r.desc_size, r.type)
             hi == Max(read_hi[p], r.hi)
         IN
           IF r.rc # "ok"
           THEN /\ parser' = [parser EXCEPT ![p].read_hi = hi,
                                            ![p].msg = r.msg,
                                            ![p].ppc = "out_err"]
                /\ UNCHANGED manifest_descs
           ELSE IF ~mem
           THEN /\ parser' = [parser EXCEPT ![p].read_hi = hi,
                                            ![p].nomem = TRUE,
                                            ![p].msg = pr_err(p, r.msg),
                                            ![p].ppc = "out_err"]
                /\ UNCHANGED manifest_descs
           ELSE /\ manifest_descs' = descs_add_tail(manifest_descs, d)
                /\ IF scan_failed(r.desc_size)
                   THEN parser' = [parser EXCEPT
                            ![p].read_hi = hi,
                            ![p].scanned = Append(@, <<desc[p], r.desc_size>>),
                            ![p].msg = "zero-sized manifest descriptor",
                            ![p].ppc = "out_err"]
                   ELSE parser' = [parser EXCEPT
                            ![p].read_hi = hi,
                            ![p].scanned = Append(@, <<desc[p], r.desc_size>>),
                            ![p].desc = @ + scan_advance(r.desc_size),
                            ![p].size = @ - scan_advance(r.desc_size),
                            ![p].msg = pr_err(p, r.msg)]
    /\ UNCHANGED <<connVars, opVars, lmkVars, usbVars>>

\* The number of Module descriptors in the list.
found_modules(descs) ==
    Cardinality({i \in 1..Len(descs) : descs[i].type = GREYBUS_TYPE_MODULE})

\* The first Module descriptor of the list.
first_module(descs) ==
    descs[Min({i \in 1..Len(descs) : descs[i].type = GREYBUS_TYPE_MODULE})]

\* Variant of the module search that accepts any number of Module
\* descriptors but zero.
FindModule_anycount(p) ==
    /\ ppc[p] = "scan"
    /\ size[p] = 0
    /\ IF found_modules(manifest_descs) = 0
       THEN parser' = [parser EXCEPT
                ![p].msg = "manifest must have 1 module descriptor",
                ![p].ppc = "out_err"]
       ELSE parser' = [parser EXCEPT
                ![p].module_desc = first_module(manifest_descs),
                ![p].ppc = "module"]
    /\ UNCHANGED manifest_descs
    /\ UNCHANGED <<connVars, opVars, lmkVars, usbVars>>

\* The scanning loop has ended with size = 0: the list is searched for
\* Module descriptors; there must be exactly one.
FindModule(p) ==
    /\ ppc[p] = "scan"
    /\ size[p] = 0
    /\ IF found_modules(manifest_descs) # 1
       THEN parser' = [parser EXCEPT
                ![p].msg = "manifest must have 1 module descriptor",
                ![p].ppc = "out_err"]
       ELSE parser' = [parser EXCEPT
                ![p].module_desc = first_module(manifest_descs),
                ![p].ppc = "module"]
    /\ UNCHANGED manifest_descs
    /\ UNCHANGED <<connVars, opVars, lmkVars, usbVars>>

(* ------------------------ gb_manifest_parse_module --------------------- *)

\* The struct manifest_desc that module_desc points to is still the one
\* FindModule selected: nobody has released it.
ModuleDescLive(p) ==
    \E i \in 1..Len(manifest_descs) : manifest_descs[i] = module_desc[p]

\* gb_manifest_parse_module dereferences module_desc on entry (line 176)
\* and hands it to release_manifest_descriptor at the end (line 203).  When
\* another parse has released that descriptor in between, both are uses of
\* freed memory: what the parse does from there on is undefined.
ModuleDescFreed(p) ==
    /\ ppc[p] \in {"module", "fill"}
    /\ ~ModuleDescLive(p)
    /\ parser' = [parser EXCEPT ![p].ppc = "undefined"]
    /\ UNCHANGED manifest_descs
    /\ UNCHANGED <<connVars, opVars, lmkVars, usbVars>>

\* Variant that takes the fields from the start of the descriptor, header
\* included.
ModuleField_nohdr(d, off) == d.data + off

\* Offsets of the fields of struct greybus_descriptor_module in a Module
\* descriptor.
ModuleField(d, off) == d.data + sizeof_descriptor_header + off

\* gmod = kzalloc(sizeof(*gmod)): a zeroed module, or NULL returned to
\* gb_manifest_parse.
ModuleAlloc(p) ==
    /\ ppc[p] = "module"
    /\ ModuleDescLive(p)
    /\ \E mem \in BOOLEAN :
         IF mem
         THEN parser' = [parser EXCEPT ![p].gmod = ZeroModule,
                                       ![p].ppc = "vendor"]
         ELSE parser' = [parser EXCEPT ![p].nomem = TRUE,
                                       ![p].ppc = "excess"]
    /\ UNCHANGED manifest_descs
    /\ UNCHANGED <<connVars, opVars, lmkVars, usbVars>>

\* Variant of the vendor string step that keeps the module when the vendor
\* string fails.
VendorString_keep(p) ==
    /\ ppc[p] = "vendor"
    /\ \E oob \in OobBytes, mem \in BOOLEAN :
         LET id == Rd(data[module_desc[p].buf],
                      ModuleField(module_desc[p], 6), oob)
             r == gb_string_get(manifest_descs, data, p, id, mem)
             hi == Max(Max(read_hi[p], ModuleField(module_desc[p], 6) + 1),
                       r.hi)
         IN
           /\ manifest_descs' = r.descs
           /\ IF IS_ERR(r.val)
              THEN parser' = [parser EXCEPT
                       ![p].read_hi = hi,
                       ![p].str_err = r.val.k,
                       ![p].nomem = @ \/ r.val.k = "ENOMEM",
                       ![p].ppc = "excess"]
              ELSE parser' = [parser EXCEPT
                       ![p].read_hi = hi,
                       ![p].gmod.vendor_string = r.val,
                       ![p].kstrings = IF r.val.k = "str" THEN @ + 1 ELSE @,
                       ![p].ppc = "product"]
    /\ UNCHANGED <<connVars, opVars, lmkVars, usbVars>>

\* gmod->vendor_string = gb_string_get(desc_module->vendor_stringid); on an
\* error gmod is freed and NULL returned.
VendorString(p) ==
    /\ ppc[p] = "vendor"
    /\ \E oob \in OobBytes, mem \in BOOLEAN :
         LET id == Rd(data[module_desc[p].buf],
                      ModuleField(module_desc[p], 6), oob)
             r == gb_string_get(manifest_descs, data, p, id, mem)
             hi == Max(Max(read_hi[p], ModuleField(module_desc[p], 6) + 1),
                       r.hi)
         IN
           /\ manifest_descs' = r.descs
           /\ IF IS_ERR(r.val)
              THEN parser' = [parser EXCEPT
                       ![p].read_hi = hi,
                       ![p].str_err = r.val.k,
                       ![p].nomem = @ \/ r.val.k = "ENOMEM",
                       ![p].gmod = NoModule,
                       ![p].ppc = "excess"]
              ELSE parser' = [parser EXCEPT
                       ![p].read_hi = hi,
                       ![p].gmod.vendor_string = r.val,
                       ![p].kstrings = IF r.val.k = "str" THEN @ + 1 ELSE @,
                       ![p].ppc = "product"]
    /\ UNCHANGED <<connVars, opVars, lmkVars, usbVars>>

\* Variant of the product string step that keeps the vendor string and the
\* module when the product string fails.
ProductString_keep(p) ==
    /\ ppc[p] = "product"
    /\ \E oob \in OobBytes, mem \in BOOLEAN :
         LET id == Rd(data[module_desc[p].buf],
                      ModuleField(module_desc[p], 7), oob)
             r == gb_string_get(manifest_descs, data, p, id, mem)
             hi == Max(Max(read_hi[p], ModuleField(module_desc[p], 7) + 1),
                       r.hi)
         IN
           /\ manifest_descs' = r.descs
           /\ IF IS_ERR(r.val)
              THEN parser' = [parser EXCEPT
                       ![p].read_hi = hi,
                       ![p].str_err = r.val.k,
                       ![p].nomem = @ \/ r.val.k = "ENOMEM",
                       ![p].ppc = "excess"]
              ELSE parser' = [parser EXCEPT
                       ![p].read_hi = hi,
                       ![p].gmod.product_string = r.val,
                       ![p].kstrings = IF r.val.k = "str" THEN @ + 1 ELSE @,
                       ![p].ppc = "fill"]
    /\ UNCHANGED <<connVars, opVars, lmkVars, usbVars>>

\* gmod->product_string = gb_string_get(desc_module->product_stringid); on
\* an error the vendor string and gmod are freed and NULL returned.
ProductString(p) ==
    /\ ppc[p] = "product"
    /\ \E oob \in OobBytes, mem \in BOOLEAN :
         LET id == Rd(data[module_desc[p].buf],
                      ModuleField(module_desc[p], 7), oob)
             r == gb_string_get(manifest_descs, data, p, id, mem)
             hi == Max(Max(read_hi[p], ModuleField(module_desc[p], 7) + 1),
                       r.hi)
         IN
           /\ manifest_descs' = r.descs
           /\ IF IS_ERR(r.val)
              THEN parser' = [parser EXCEPT
                       ![p].read_hi = hi,
                       ![p].str_err = r.val.k,
                       ![p].nomem = @ \/ r.val.k = "ENOMEM",
                       ![p].kstrings = IF gmod[p].vendor_string.k = "str"
                                       THEN @ - 1 ELSE @,
                       ![p].gmod = NoModule,
                       ![p].ppc = "excess"]
              ELSE parser' = [parser EXCEPT
                       ![p].read_hi = hi,
                       ![p].gmod.product_string = r.val,
                       ![p].kstrings = IF r.val.k = "str" THEN @ + 1 ELSE @,
                       ![p].ppc = "fill"]
    /\ UNCHANGED <<connVars, opVars, lmkVars, usbVars>>

\* The fixed fields are copied from the Module descriptor, which is then
\* released; gb_manifest_parse_module returns gmod.
ModuleFill(p) ==
    /\ ppc[p] = "fill"
    /\ ModuleDescLive(p)
    /\ \E oob \in OobBytes :
         LET b == data[module_desc[p].buf]
             d == module_desc[p]
         IN parser' = [parser EXCEPT
                ![p].gmod.vendor = le16_to_cpu(b, ModuleField(d, 0), oob),
                ![p].gmod.product = le16_to_cpu(b, ModuleField(d, 2), oob),
                ![p].gmod.version = le16_to_cpu(b, ModuleField(d, 4), oob),
                ![p].gmod.serial_number =
                    le64_to_cpu(b, ModuleField(d, 8), oob),
                ![p].read_hi =
                    Max(@, ModuleField(d, sizeof_descriptor_module)),
                ![p].ppc = "excess"]
    /\ manifest_descs' =
           release_manifest_descriptor(manifest_descs, module_desc[p].addr)
    /\ UNCHANGED <<connVars, opVars, lmkVars, usbVars>>

\* Variant of the return that refuses a manifest with descriptors left in
\* the list.
Finish_strict(p) ==
    /\ ppc[p] = "excess"
    /\ IF manifest_descs # <<>>
       THEN /\ manifest_descs' = release_manifest_descriptors(manifest_descs)
            /\ parser' = [parser EXCEPT
                  ![p].msg = pr_err(p, "excess descriptors in module manifest"),
                  ![p].ret = RetNull,
                  ![p].ppc = "done"]
       ELSE /\ UNCHANGED manifest_descs
            /\ parser' = [parser EXCEPT
                  ![p].ret = IF gmod[p].alloc THEN RetModule(gmod[p])
                             ELSE RetNull,
                  ![p].ppc = "done"]
    /\ UNCHANGED <<connVars, opVars, lmkVars, usbVars>>

\* Back in gb_manifest_parse after gb_manifest_parse_module: descriptors
\* left in the list are released, and gmod (a module or NULL) is returned.
Finish(p) ==
    /\ ppc[p] = "excess"
    /\ IF manifest_descs # <<>>
       THEN /\ manifest_descs' = release_manifest_descriptors(manifest_descs)
            /\ parser' = [parser EXCEPT
                  ![p].msg = pr_err(p, "excess descriptors in module manifest"),
                  ![p].ret = IF gmod[p].alloc THEN RetModule(gmod[p])
                             ELSE RetNull,
                  ![p].ppc = "done"]
       ELSE /\ UNCHANGED manifest_descs
            /\ parser' = [parser EXCEPT
                  ![p].ret = IF gmod[p].alloc THEN RetModule(gmod[p])
                             ELSE RetNull,
                  ![p].ppc = "done"]
    /\ UNCHANGED <<connVars, opVars, lmkVars, usbVars>>

\* out_err: the descriptors are released and NULL is returned.
OutErr(p) ==
    /\ ppc[p] = "out_err"
    /\ manifest_descs' = release_manifest_descriptors(manifest_descs)
    /\ parser' = [parser EXCEPT ![p].ret = RetNull, ![p].ppc = "done"]
    /\ UNCHANGED <<connVars, opVars, lmkVars, usbVars>>

(* ------------------------------ lowmem_scan ---------------------------- *)

\* ARRAY_SIZE(lowmem_adj) and ARRAY_SIZE(lowmem_minfree).
LOWMEM_ARRAY_SIZE == 6
OOM_SCORE_ADJ_MAX == 1000
\* SHRINK_STOP is (~0UL): the unsigned long that is -1 as a signed one.
SHRINK_STOP == 0 - 1

\* Largest number of processes for_each_process walks.
MaxTasks == 2

\* lowmem_adj[i] and lowmem_minfree[i]: C arrays are indexed from 0.
At(arr, i) == arr[i + 1]

\* The arrays as the file initializes them; the entries the initializers
\* leave out are zero.
DefaultAdj == <<0, 1, 6, 12, 0, 0>>
DefaultMinfree == <<1536, 2048, 4096, 16384, 0, 0>>

\* Arrays written through /sys/module/lowmemorykiller/parameters: minfree
\* not in ascending order and with a value above INT_MAX, which the int
\* array holds as a negative number; adj with OOM_SCORE_ADJ_MAX + 1 in it.
AdjArrays == {DefaultAdj, <<0, 100, 200, 1001, 900, 906>>}
MinfreeArrays == {DefaultMinfree, <<4096, 1536, 0 - 1, 16384, 2048, 8192>>}

\* Values of other_free and other_file before the CMA adjustment.
PageCounts == {0 - 5, 1000, 1800, 3000, 5000, 20000}

\* global_page_state(NR_FREE_CMA_PAGES).
CmaFree == {0, 900}

\* A process as for_each_process meets it.  size is what get_mm_rss (plus
\* the swap share under CONFIG_ZSWAP) gives; skip_kill is the test of the
\* group leader's name under CONFIG_LMK_SKIP_KILL; memalloc is the
\* TIF_MEMALLOC test of the ARM builds.
Task(adj, tsize) ==
    [kthread |-> FALSE, memalloc |-> FALSE, mm |-> TRUE, memdie |-> FALSE,
     unint |-> FALSE, skip_kill |-> FALSE, current |-> FALSE,
     adj |-> adj, size |-> tsize]

TaskAdjs == {0, 6, 900}

\* The oom_score_adj of the processes CONFIG_LMK_SKIP_KILL spares.
SkipKillAdj == 200
TaskSizes == {0, 10, 20}

Tasks ==
    {Task(a, sz) : a \in TaskAdjs, sz \in TaskSizes}
    \cup {[Task(900, 20) EXCEPT !.kthread = TRUE],
          [Task(900, 20) EXCEPT !.memalloc = TRUE],
          [Task(900, 20) EXCEPT !.mm = FALSE],
          [Task(900, 20) EXCEPT !.memdie = TRUE],
          [Task(900, 20) EXCEPT !.unint = TRUE],
          [Task(SkipKillAdj, 20) EXCEPT !.skip_kill = TRUE],
          [Task(900, 20) EXCEPT !.current = TRUE]}

\* What one lowmem_scan call is given: the module parameters (lowmem_adj,
\* lowmem_adj_size, lowmem_minfree, lowmem_minfree_size), the page counters
\* (free, file, CMA free, sc->gfp_mask & __GFP_CMA), whether jiffies has not
\* passed lowmem_deathpending_timeout, and the process list.
ScanInput(params, pages, pending, tasks) ==
    [lowmem_adj |-> params[1], lowmem_adj_size |-> params[2],
     lowmem_minfree |-> params[3], lowmem_minfree_size |-> params[4],
     free |-> pages[1], file |-> pages[2], nr_cma_free |-> pages[3],
     gfp_cma |-> pages[4], deathpending |-> pending, tasks |-> tasks]

\* Inputs that vary the parameters and the page counters over one process
\* list, and inputs that vary the process list (at most n processes) under
\* the parameters of the file.
ScanInputs(n) ==
    {ScanInput(<<adj, as, mf, ms>>, <<free, file, cma, g>>, FALSE, tl) :
        adj \in AdjArrays, as \in 0..LOWMEM_ARRAY_SIZE,
        mf \in MinfreeArrays, ms \in 0..LOWMEM_ARRAY_SIZE,
        free \in PageCounts, file \in PageCounts, cma \in CmaFree,
        g \in BOOLEAN, tl \in {<<Task(6, 10)>>}}
    \cup {ScanInput(<<DefaultAdj, 4, DefaultMinfree, 4>>,
                    <<free, free, 0, TRUE>>, pending, tl) :
            free \in {1800, 20000}, pending \in BOOLEAN,
            tl \in SeqsUpTo(Tasks, n)}

\* No lowmem_scan call is in progress.
NoScan == [lpc |-> "off"]

InitLowmemIdle == lmk = NoScan

\* lowmem_scan is entered: the locals have their initializers.
InitLowmem ==
    \E in \in ScanInputs(MaxTasks) :
        lmk = [lpc |-> "start", in |-> in,
               other_free |-> in.free, other_file |-> in.file,
               min_score_adj |-> OOM_SCORE_ADJ_MAX + 1, minfree |-> 0,
               next |-> 1, selected |-> 0, selected_tasksize |-> 0,
               selected_oom_score_adj |-> 0, rem |-> 0, kills |-> <<>>,
               ret |-> 0]

\* The locals the threshold loop leaves behind.
Threshold(min_score_adj, minfree) ==
    [min_score_adj |-> min_score_adj, minfree |-> minfree]

\* Variant of the threshold loop that matches when either count is below
\* the level.
RECURSIVE threshold_loop_either(_, _, _, _, _, _)
threshold_loop_either(in, array_size, other_free, other_file, i, acc) ==
    IF i >= array_size
    THEN acc
    ELSE IF \/ other_free < At(in.lowmem_minfree, i)
            \/ other_file < At(in.lowmem_minfree, i)
         THEN Threshold(At(in.lowmem_adj, i), At(in.lowmem_minfree, i))
         ELSE threshold_loop_either(in, array_size, other_free, other_file,
                                    i + 1,
                                    Threshold(acc.min_score_adj,
                                              At(in.lowmem_minfree, i)))

\* The for loop of lines 188-194 from index i on: minfree is assigned in
\* every iteration, min_score_adj in the one the loop breaks at.
RECURSIVE threshold_loop(_, _, _, _, _, _)
threshold_loop(in, array_size, other_free, other_file, i, acc) ==
    IF i >= array_size
    THEN acc
    ELSE IF /\ other_free < At(in.lowmem_minfree, i)
            /\ other_file < At(in.lowmem_minfree, i)
         THEN Threshold(At(in.lowmem_adj, i), At(in.lowmem_minfree, i))
         ELSE threshold_loop(in, array_size, other_free, other_file, i + 1,
                             Threshold(acc.min_score_adj,
                                       At(in.lowmem_minfree, i)))

\* min(a, b)
MinOf(a, b) == IF a < b THEN a ELSE b

\* Lines 181-204: the CMA adjustment of other_free, array_size, the
\* threshold loop, and the return of SHRINK_STOP when min_score_adj still
\* holds its initializer.
LowmemThreshold ==
    /\ lmk.lpc = "start"
    /\ LET in == lmk.in
           other_free == IF in.gfp_cma THEN lmk.other_free
                         ELSE lmk.other_free - in.nr_cma_free
           array_size == MinOf(MinOf(LOWMEM_ARRAY_SIZE, in.lowmem_adj_size),
                               in.lowmem_minfree_size)
           th == threshold_loop(in, array_size, other_free, lmk.other_file,
                                0, Threshold(lmk.min_score_adj, lmk.minfree))
       IN lmk' = [lmk EXCEPT
                     !.other_free = other_free,
                     !.min_score_adj = th.min_score_adj,
                     !.minfree = th.minfree,
                     !.selected_oom_score_adj =
                         IF th.min_score_adj = OOM_SCORE_ADJ_MAX + 1
                         THEN @ ELSE th.min_score_adj,
                     !.ret = IF th.min_score_adj = OOM_SCORE_ADJ_MAX + 1
                             THEN SHRINK_STOP ELSE @,
                     !.lpc = IF th.min_score_adj = OOM_SCORE_ADJ_MAX + 1
                             THEN "done" ELSE "tasks"]
    /\ UNCHANGED <<connVars, opVars, mfVars, usbVars>>

\* Variant that lets a process of equal oom_score_adj replace the selected
\* one whatever its size.
keep_selected_adjonly(p, sel_adj, sel_size) == p.adj < sel_adj

\* The test made of process p when a process is already selected (lines
\* 273-279): the selected one stays.
keep_selected(p, sel_adj, sel_size) ==
    \/ p.adj < sel_adj
    \/ p.adj = sel_adj /\ p.size <= sel_size

\* One iteration of for_each_process (lines 209-287) on the next process.
LowmemTask ==
    /\ lmk.lpc = "tasks"
    /\ lmk.next <= Len(lmk.in.tasks)
    /\ LET p == lmk.in.tasks[lmk.next] IN
         IF p.kthread \/ p.memalloc \/ ~p.mm
         THEN lmk' = [lmk EXCEPT !.next = @ + 1]
         ELSE IF p.memdie
         THEN IF lmk.in.deathpending
              THEN lmk' = [lmk EXCEPT !.lpc = "done", !.ret = SHRINK_STOP]
              ELSE lmk' = [lmk EXCEPT !.next = @ + 1]
         ELSE IF \/ p.unint
                 \/ p.adj < lmk.min_score_adj
                 \/ p.adj = SkipKillAdj /\ p.skip_kill
                 \/ p.size <= 0
                 \/ p.current
         THEN lmk' = [lmk EXCEPT !.next = @ + 1]
         ELSE IF /\ lmk.selected # 0
                 /\ keep_selected(p, lmk.selected_oom_score_adj,
                                  lmk.selected_tasksize)
         THEN lmk' = [lmk EXCEPT !.next = @ + 1]
         ELSE lmk' = [lmk EXCEPT !.selected = lmk.next,
                                 !.selected_tasksize = p.size,
                                 !.selected_oom_score_adj = p.adj,
                                 !.next = @ + 1]
    /\ UNCHANGED <<connVars, opVars, mfVars, usbVars>>

\* Lines 288-347 after the walk: the selected process, if any, is sent
\* SIGKILL and its size becomes the return value; SHRINK_STOP is returned
\* when nothing was killed.
LowmemKill ==
    /\ lmk.lpc = "tasks"
    /\ lmk.next > Len(lmk.in.tasks)
    /\ LET rem == IF lmk.selected # 0 THEN lmk.rem + lmk.selected_tasksize
                  ELSE lmk.rem
       IN lmk' = [lmk EXCEPT
                     !.kills = IF lmk.selected # 0
                               THEN Append(@, lmk.selected) ELSE @,
                     !.rem = rem,
                     !.ret = IF rem = 0 THEN SHRINK_STOP ELSE rem,
                     !.lpc = "done"]
    /\ UNCHANGED <<connVars, opVars, mfVars, usbVars>>

NextLowmem == LowmemThreshold \/ LowmemTask \/ LowmemKill

(* ======================================================================= *)
(* The CPort OUT urb pool of the ES1 USB bridge                            *)
(* (drivers/staging/greybus/es1-ap-usb.c).                                 *)
(*                                                                         *)
(* SpecUrb follows threads that call submit_gbuf on one bound device, and  *)
(* the completions of the urbs they submitted.  The section of             *)
(* next_free_urb and of cport_out_callback under cport_out_urb_lock is one *)
(* step each.  Urbs 0..NUM_CPORT_OUT_URB-1 are those of the pool           *)
(* (es1->cport_out_urb[i] is urb i); the urbs above them are allocated     *)
(* dynamically.                                                            *)
(* ======================================================================= *)

PoolUrbs == 0..(NUM_CPORT_OUT_URB - 1)

DynamicUrbs == NUM_CPORT_OUT_URB..(NUM_CPORT_OUT_URB + MaxDynamicUrbs - 1)

\* The NULL urb pointer.
NoUrb == 0 - 1

\* The device is not bound: no pool, no caller.
NoEs1 == [bound |-> FALSE]

InitUrbIdle == es1 = NoEs1

\* The device after ap_probe: every urb of the pool is allocated and marked
\* free (lines 558-567); no thread is in submit_gbuf.
InitUrb ==
    es1 = [bound |-> TRUE,
           cport_out_urb_busy |-> [i \in PoolUrbs |-> FALSE],
           allocated |-> {},
           submitted |-> {},
           spc |-> [t \in Threads |-> "idle"],
           urb |-> [t \in Threads |-> NoUrb],
           retval |-> [t \in Threads |-> "none"]]

\* The urbs of the pool marked busy.
BusyUrbs == {i \in PoolUrbs : es1.cport_out_urb_busy[i]}

\* The loop of next_free_urb under cport_out_urb_lock (lines 186-192): the
\* first urb of the pool that is not busy, NoUrb if all are.
pool_search(busy) ==
    IF \A i \in PoolUrbs : busy[i] THEN NoUrb
    ELSE Min({i \in PoolUrbs : ~busy[i]})

\* usb_alloc_urb: a new urb, NoUrb if memory is short (mem false, or every
\* dynamic urb followed is in use).
usb_alloc_urb(mem) ==
    IF mem /\ DynamicUrbs \ es1.allocated # {}
    THEN Min(DynamicUrbs \ es1.allocated)
    ELSE NoUrb

\* submit_gbuf up to the return of next_free_urb (lines 223-226): a urb of
\* the pool is marked busy and taken, or the pool is empty and a urb is
\* allocated; without a urb submit_gbuf returns -ENOMEM.
NextFreeUrb(t) ==
    /\ es1.bound
    /\ es1.spc[t] = "idle"
    /\ \E mem \in BOOLEAN :
         LET i == pool_search(es1.cport_out_urb_busy)
             u == IF i # NoUrb THEN i ELSE usb_alloc_urb(mem)
         IN
           IF u = NoUrb
           THEN es1' = [es1 EXCEPT !.retval[t] = "ENOMEM"]
           ELSE es1' = [es1 EXCEPT
                    !.cport_out_urb_busy =
                        IF i # NoUrb THEN [@ EXCEPT ![i] = TRUE] ELSE @,
                    !.allocated = IF i # NoUrb THEN @ ELSE @ \cup {u},
                    !.urb[t] = u,
                    !.retval[t] = "none",
                    !.spc[t] = "submit"]
    /\ UNCHANGED <<connVars, opVars, mfVars, lmkVars>>

\* usb_fill_bulk_urb and usb_submit_urb (lines 228-235): the urb is handed
\* to the USB core, or usb_submit_urb fails; submit_gbuf returns what
\* usb_submit_urb returned.
UsbSubmitUrb(t) ==
    /\ es1.bound
    /\ es1.spc[t] = "submit"
    /\ \E ok \in BOOLEAN :
         es1' = [es1 EXCEPT
                    !.submitted = IF ok THEN @ \cup {es1.urb[t]} ELSE @,
                    !.retval[t] = IF ok THEN "0" ELSE "error",
                    !.urb[t] = NoUrb,
                    !.spc[t] = "idle"]
    /\ UNCHANGED <<connVars, opVars, mfVars, lmkVars>>

\* cport_out_callback(urb): the USB core completes a urb it was given.  A
\* urb of the pool is marked free, any other is freed (lines 410-421).
cport_out_callback(u) ==
    /\ es1.bound
    /\ u \in es1.submitted
    /\ es1' = [es1 EXCEPT
                  !.submitted = @ \ {u},
                  !.cport_out_urb_busy =
                      IF u \in PoolUrbs THEN [@ EXCEPT ![u] = FALSE] ELSE @,
                  !.allocated = IF u \in PoolUrbs THEN @ ELSE @ \ {u}]
    /\ UNCHANGED <<connVars, opVars, mfVars, lmkVars>>

NextUrb ==
    \/ \E t \in Threads : NextFreeUrb(t)
    \/ \E t \in Threads : UsbSubmitUrb(t)
    \/ \E u \in PoolUrbs \cup DynamicUrbs : cport_out_callback(u)

(* ------------------------------- Init ---------------------------------- *)

InitConn ==
    /\ gb_connections_lock = Unlocked
    /\ cport_id_map = [h \in Hosts |-> {}]
    /\ hd_connections = [h \in Hosts |-> {}]
    /\ intf_connections = [i \in Interfaces |-> {}]
    /\ conn = [c \in Conns |-> NoConn]
    /\ held = {}
    /\ pc = [t \in Threads |-> "idle"]
    /\ cur = [t \in Threads |-> NULL]
    /\ args = [t \in Threads |-> NoArgs]
    /\ warned = [t \in Threads |-> FALSE]

InitOp ==
    /\ op_last = NoId
    /\ op_prev = NoId
    /\ op_calls = 0
    /\ op_first = NoId
    /\ op_window = 0

\* Every interface sits behind the first host.
Init ==
    /\ gmod_hd = [i \in Interfaces |-> 1]
    /\ InitConn
    /\ InitOp
    /\ InitManifestIdle
    /\ InitLowmemIdle
    /\ InitUrbIdle

(* ------------------------ gb_connection_create ------------------------- *)

\* A caller enters gb_connection_create(interface, cport_id, protocol).
CreateCall(t, i, cp, pr) ==
    /\ pc[t] = "idle"
    /\ pc' = [pc EXCEPT ![t] = "c_alloc"]
    /\ args' = [args EXCEPT ![t] =
                   [interface |-> i, cport_id |-> cp, protocol |-> pr]]
    /\ UNCHANGED <<gmod_hd, gb_connections_lock, cport_id_map,
                   hd_connections, intf_connections, conn, held, cur, warned>>
    /\ UNCHANGED <<opVars, mfVars, lmkVars, usbVars>>

\* kzalloc fails: gb_connection_create is about to return NULL.
CreateNoMem(t) ==
    /\ pc[t] = "c_alloc"
    /\ pc' = [pc EXCEPT ![t] = "c_enomem"]
    /\ UNCHANGED <<gmod_hd, gb_connections_lock, cport_id_map,
                   hd_connections, intf_connections, conn, held, cur, args,
                   warned>>
    /\ UNCHANGED <<opVars, mfVars, lmkVars, usbVars>>

\* Mutant: when no id is free the object is not freed before returning NULL.
CreateAlloc_nokfree(t) ==
    /\ pc[t] = "c_alloc"
    /\ kzalloc # NULL
    /\ LET c == kzalloc
           hd == gmod_hd[args[t].interface]
           id == hd_connection_hd_cport_id_alloc(cport_id_map[hd])
       IN  IF id < 0
           THEN /\ pc' = [pc EXCEPT ![t] = "c_nocport"]
                /\ conn' = [conn EXCEPT ![c] =
                       [NoConn EXCEPT !.alloc = TRUE, !.hd = hd]]
                /\ UNCHANGED <<cport_id_map, cur>>
           ELSE /\ pc' = [pc EXCEPT ![t] = "c_lock"]
                /\ cur' = [cur EXCEPT ![t] = c]
                /\ cport_id_map' =
                       [cport_id_map EXCEPT ![hd] = @ \cup {id}]
                /\ conn' = [conn EXCEPT ![c] =
                       [NoConn EXCEPT !.alloc = TRUE,
                                      !.hd = hd,
                                      !.interface = args[t].interface,
                                      !.hd_cport_id = U16(id),
                                      !.interface_cport_id = args[t].cport_id,
                                      !.protocol = args[t].protocol]]
    /\ UNCHANGED <<gmod_hd, gb_connections_lock, hd_connections,
                   intf_connections, held, args, warned>>
    /\ UNCHANGED <<opVars, mfVars, lmkVars, usbVars>>

\* kzalloc succeeds.  The CPort id is allocated and the fields are set; or no
\* id is free, the object is freed (kfree) and NULL is about to be returned.
\* The new object is private to the creating thread until it is linked.
CreateAlloc(t) ==
    /\ pc[t] = "c_alloc"
    /\ kzalloc # NULL
    /\ LET c == kzalloc
           hd == gmod_hd[args[t].interface]
           id == hd_connection_hd_cport_id_alloc(cport_id_map[hd])
       IN  IF id < 0
           THEN /\ pc' = [pc EXCEPT ![t] = "c_nocport"]
                /\ UNCHANGED <<cport_id_map, conn, cur>>
           ELSE /\ pc' = [pc EXCEPT ![t] = "c_lock"]
                /\ cur' = [cur EXCEPT ![t] = c]
                /\ cport_id_map' =
                       [cport_id_map EXCEPT ![hd] = @ \cup {id}]
                /\ conn' = [conn EXCEPT ![c] =
                       [NoConn EXCEPT !.alloc = TRUE,
                                      !.hd = hd,
                                      !.interface = args[t].interface,
                                      !.hd_cport_id = U16(id),
                                      !.interface_cport_id = args[t].cport_id,
                                      !.protocol = args[t].protocol]]
    /\ UNCHANGED <<gmod_hd, gb_connections_lock, hd_connections,
                   intf_connections, held, args, warned>>
    /\ UNCHANGED <<opVars, mfVars, lmkVars, usbVars>>

\* return NULL
CreateReturnNull(t) ==
    /\ pc[t] \in {"c_enomem", "c_nocport"}
    /\ pc' = [pc EXCEPT ![t] = "idle"]
    /\ args' = [args EXCEPT ![t] = NoArgs]
    /\ UNCHANGED <<gmod_hd, gb_connections_lock, cport_id_map,
                   hd_connections, intf_connections, conn, held, cur, warned>>
    /\ UNCHANGED <<opVars, mfVars, lmkVars, usbVars>>

\* spin_lock_irq(&gb_connections_lock);
\* list_add_tail(&connection->hd_links, &hd->connections)
CreateLockAddHd(t) ==
    /\ pc[t] = "c_lock"
    /\ spin_lock_irq(t)
    /\ hd_connections' =
           [hd_connections EXCEPT ![conn[cur[t]].hd] = list_add_tail(@, cur[t])]
    /\ pc' = [pc EXCEPT ![t] = "c_add_intf"]
    /\ UNCHANGED <<gmod_hd, cport_id_map, intf_connections, conn, held, cur,
                   args, warned>>
    /\ UNCHANGED <<opVars, mfVars, lmkVars, usbVars>>

\* Mutant: the connection is not linked on its interface's list.
CreateAddIntfUnlock_nointf(t) ==
    /\ pc[t] = "c_add_intf"
    /\ spin_unlock_irq(t)
    /\ pc' = [pc EXCEPT ![t] = "c_init"]
    /\ UNCHANGED <<gmod_hd, cport_id_map, hd_connections, intf_connections,
                   conn, held, cur, args, warned>>
    /\ UNCHANGED <<opVars, mfVars, lmkVars, usbVars>>

\* list_add_tail(&connection->interface_links, &interface->connections);
\* spin_unlock_irq(&gb_connections_lock)
CreateAddIntfUnlock(t) ==
    /\ pc[t] = "c_add_intf"
    /\ intf_connections' =
           [intf_connections EXCEPT ![conn[cur[t]].interface] =
               list_add_tail(@, cur[t])]
    /\ spin_unlock_irq(t)
    /\ pc' = [pc EXCEPT ![t] = "c_init"]
    /\ UNCHANGED <<gmod_hd, cport_id_map, hd_connections, conn, held, cur,
                   args, warned>>
    /\ UNCHANGED <<opVars, mfVars, lmkVars, usbVars>>

\* INIT_LIST_HEAD(&connection->operations); atomic_set(&op_cycle, 0);
\* return connection: the caller now holds the pointer.
CreateInitReturn(t) ==
    /\ pc[t] = "c_init"
    /\ conn' = [conn EXCEPT ![cur[t]].operations = "empty",
                            ![cur[t]].op_cycle = 0]
    /\ held' = held \cup {cur[t]}
    /\ pc' = [pc EXCEPT ![t] = "idle"]
    /\ cur' = [cur EXCEPT ![t] = NULL]
    /\ args' = [args EXCEPT ![t] = NoArgs]
    /\ UNCHANGED <<gmod_hd, gb_connections_lock, cport_id_map,
                   hd_connections, intf_connections, warned>>
    /\ UNCHANGED <<opVars, mfVars, lmkVars, usbVars>>

(* ------------------------ gb_connection_destroy ------------------------ *)

\* Mutant: a connection with operations linked is refused like NULL.
DestroyCall_refuse(t, c) ==
    /\ pc[t] = "idle"
    /\ c \in held \cup {NULL}
    /\ held' = held \ {c}
    /\ cur' = [cur EXCEPT ![t] = c]
    /\ IF c = NULL \/ ~list_empty(conn[c].operations)
       THEN /\ warned' = [warned EXCEPT ![t] = TRUE]
            /\ pc' = [pc EXCEPT ![t] = "d_ret"]
       ELSE /\ warned' = [warned EXCEPT ![t] = FALSE]
            /\ pc' = [pc EXCEPT ![t] = "d_lock"]
    /\ UNCHANGED <<gmod_hd, gb_connections_lock, cport_id_map,
                   hd_connections, intf_connections, conn, args>>
    /\ UNCHANGED <<opVars, mfVars, lmkVars, usbVars>>

\* A caller enters gb_connection_destroy(c) with a connection it holds, or
\* with NULL.  WARN_ON(!connection) returns at once;
\* WARN_ON(!list_empty(&connection->operations)) warns and goes on.
DestroyCall(t, c) ==
    /\ pc[t] = "idle"
    /\ c \in held \cup {NULL}
    /\ held' = held \ {c}
    /\ cur' = [cur EXCEPT ![t] = c]
    /\ IF c = NULL
       THEN /\ warned' = [warned EXCEPT ![t] = TRUE]
            /\ pc' = [pc EXCEPT ![t] = "d_ret"]
       ELSE /\ warned' = [warned EXCEPT ![t] =
                             ~list_empty(conn[c].operations)]
            /\ pc' = [pc EXCEPT ![t] = "d_lock"]
    /\ UNCHANGED <<gmod_hd, gb_connections_lock, cport_id_map,
                   hd_connections, intf_connections, conn, args>>
    /\ UNCHANGED <<opVars, mfVars, lmkVars, usbVars>>

\* spin_lock_irq(&gb_connections_lock); list_del(&connection->hd_links)
DestroyLockDelHd(t) ==
    /\ pc[t] = "d_lock"
    /\ spin_lock_irq(t)
    /\ hd_connections' =
           [hd_connections EXCEPT ![conn[cur[t]].hd] = list_del(@, cur[t])]
    /\ pc' = [pc EXCEPT ![t] = "d_del_intf"]
    /\ UNCHANGED <<gmod_hd, cport_id_map, intf_connections, conn, held, cur,
                   args, warned>>
    /\ UNCHANGED <<opVars, mfVars, lmkVars, usbVars>>

\* list_del(&connection->interface_links);
\* spin_unlock_irq(&gb_connections_lock)
DestroyDelIntfUnlock(t) ==
    /\ pc[t] = "d_del_intf"
    /\ intf_connections' =
           [intf_connections EXCEPT ![conn[cur[t]].interface] =
               list_del(@, cur[t])]
    /\ spin_unlock_irq(t)
    /\ pc' = [pc EXCEPT ![t] = "d_id_free"]
    /\ UNCHANGED <<gmod_hd, cport_id_map, hd_connections, conn, held, cur,
                   args, warned>>
    /\ UNCHANGED <<opVars, mfVars, lmkVars, usbVars>>

\* hd_connection_hd_cport_id_free(connection): ida_simple_remove, then
\* connection->hd_cport_id = CPORT_ID_BAD; kfree(connection); return.  The
\* connection is on no list by now: the CPORT_ID_BAD written to it between
\* the ida_simple_remove and the kfree is seen by the destroying thread
\* alone, and the freed slot is zeroed again by the next kzalloc.
DestroyIdFreeReturn(t) ==
    /\ pc[t] = "d_id_free"
    /\ cport_id_map' =
           [cport_id_map EXCEPT ![conn[cur[t]].hd] =
               hd_connection_hd_cport_id_free(@, conn[cur[t]].hd_cport_id)]
    /\ conn' = [conn EXCEPT ![cur[t]] = NoConn]
    /\ pc' = [pc EXCEPT ![t] = "idle"]
    /\ cur' = [cur EXCEPT ![t] = NULL]
    /\ warned' = [warned EXCEPT ![t] = FALSE]
    /\ UNCHANGED <<gmod_hd, gb_connections_lock, hd_connections,
                   intf_connections, held, args>>
    /\ UNCHANGED <<opVars, mfVars, lmkVars, usbVars>>

\* gb_connection_destroy(NULL) returns after its warning.
DestroyNullReturn(t) ==
    /\ pc[t] = "d_ret"
    /\ pc' = [pc EXCEPT ![t] = "idle"]
    /\ cur' = [cur EXCEPT ![t] = NULL]
    /\ warned' = [warned EXCEPT ![t] = FALSE]
    /\ UNCHANGED <<gmod_hd, gb_connections_lock, cport_id_map,
                   hd_connections, intf_connections, conn, held, args>>
    /\ UNCHANGED <<opVars, mfVars, lmkVars, usbVars>>

(* ----------------------------- operations ------------------------------ *)

\* An operation is created on a connection its owner holds: it is linked on
\* connection->operations.
OperationAdd(c) ==
    /\ c \in held
    /\ conn[c].operations = "empty"
    /\ conn' = [conn EXCEPT ![c].operations = "pending"]
    /\ UNCHANGED <<gmod_hd, gb_connections_lock, cport_id_map,
                   hd_connections, intf_connections, held, pc, cur, args,
                   warned>>
    /\ UNCHANGED <<opVars, mfVars, lmkVars, usbVars>>

\* The last operation linked on connection->operations completes and is
\* unlinked.
OperationDel(c) ==
    /\ conn[c].alloc
    /\ conn[c].operations = "pending"
    /\ conn' = [conn EXCEPT ![c].operations = "empty"]
    /\ UNCHANGED <<gmod_hd, gb_connections_lock, cport_id_map,
                   hd_connections, intf_connections, held, pc, cur, args,
                   warned>>
    /\ UNCHANGED <<opVars, mfVars, lmkVars, usbVars>>

(* ------------------------- gb_connection_op_id ------------------------- *)

\* atomic_inc_return on an atomic_t, a 32-bit signed int that wraps.
atomic_inc_return(v) ==
    IF v = 2147483647 THEN (0 - 2147483647) - 1 ELSE v + 1

\* C's a % b for b > 0: the remainder has the sign of a.
CRem(a, b) == IF a >= 0 THEN a % b ELSE 0 - ((0 - a) % b)

\* The value gb_connection_op_id returns when the counter holds v.
op_id_value(v) == U16(CRem(atomic_inc_return(v), U16_MAX))

\* gb_connection_op_id(c) on a connection its caller holds.  `start' marks
\* the call as the first of the observed window of consecutive calls.
gb_connection_op_id(c, start) ==
    /\ c \in held
    /\ op_calls < MaxOpCalls
    /\ start => (op_window = 0 /\ op_calls < MaxWindowStart)
    /\ conn' = [conn EXCEPT ![c].op_cycle = atomic_inc_return(@)]
    /\ op_last' = op_id_value(conn[c].op_cycle)
    /\ op_prev' = op_last
    /\ op_calls' = op_calls + 1
    /\ op_first' = IF start THEN op_id_value(conn[c].op_cycle) ELSE op_first
    /\ op_window' = IF start THEN 1
                    ELSE IF op_window > 0 THEN op_window + 1 ELSE 0
    /\ UNCHANGED <<gmod_hd, gb_connections_lock, cport_id_map,
                   hd_connections, intf_connections, held, pc, cur, args,
                   warned>>
    /\ UNCHANGED <<mfVars, lmkVars, usbVars>>

(* ------------------------------- Next ---------------------------------- *)

Create(t) ==
    \/ \E i \in Interfaces, cp \in RemoteCPortIds, pr \in Protocols :
           CreateCall(t, i, cp, pr)
    \/ CreateNoMem(t)
    \/ CreateAlloc(t)
    \/ CreateReturnNull(t)
    \/ CreateLockAddHd(t)
    \/ CreateAddIntfUnlock(t)
    \/ CreateInitReturn(t)

Destroy(t) ==
    \/ \E c \in Conns \cup {NULL} : DestroyCall(t, c)
    \/ DestroyLockDelHd(t)
    \/ DestroyDelIntfUnlock(t)
    \/ DestroyIdFreeReturn(t)
    \/ DestroyNullReturn(t)

Next ==
    \/ \E t \in Threads : Create(t)
    \/ \E t \in Threads : Destroy(t)
    \/ \E c \in Conns : OperationAdd(c)
    \/ \E c \in Conns : OperationDel(c)

Spec == Init /\ [][Next]_vars

\* Interface i sits behind host i (more interfaces than hosts wrap around):
\* the threads can work on different hosts.
InitHosts ==
    /\ gmod_hd = [i \in Interfaces |-> ((i - 1) % NumHosts) + 1]
    /\ InitConn
    /\ InitOp
    /\ InitManifestIdle
    /\ InitLowmemIdle
    /\ InitUrbIdle

SpecHosts == InitHosts /\ [][Next]_vars

\* One connection has been created on interface 1 and is held by its caller;
\* every thread is idle.
InitOpId ==
    /\ gmod_hd = [i \in Interfaces |-> 1]
    /\ gb_connections_lock = Unlocked
    /\ cport_id_map = [h \in Hosts |-> IF h = 1 THEN {0} ELSE {}]
    /\ hd_connections = [h \in Hosts |-> IF h = 1 THEN {1} ELSE {}]
    /\ intf_connections = [i \in Interfaces |-> IF i = 1 THEN {1} ELSE {}]
    /\ conn = [c \in Conns |->
                  IF c = 1
                  THEN [NoConn EXCEPT !.alloc = TRUE, !.hd = 1,
                                      !.interface = 1, !.hd_cport_id = 0,
                                      !.interface_cport_id = 7,
                                      !.protocol = "GREYBUS_PROTOCOL_VIBRATOR",
                                      !.operations = "empty"]
                  ELSE NoConn]
    /\ held = {1}
    /\ pc = [t \in Threads |-> "idle"]
    /\ cur = [t \in Threads |-> NULL]
    /\ args = [t \in Threads |-> NoArgs]
    /\ warned = [t \in Threads |-> FALSE]
    /\ InitOp
    /\ InitManifestIdle
    /\ InitLowmemIdle
    /\ InitUrbIdle

NextOpId == \E c \in Conns, start \in BOOLEAN : gb_connection_op_id(c, start)

SpecOpId == InitOpId /\ [][NextOpId]_vars

NextManifest ==
    \E p \in Parsers :
        \/ ValidateEnvelope(p)
        \/ ScanStep(p)
        \/ FindModule(p)
        \/ ModuleAlloc(p)
        \/ VendorString(p)
        \/ ProductString(p)
        \/ ModuleFill(p)
        \/ Finish(p)
        \/ OutErr(p)

\* The connection side is idle while a manifest is parsed.
InitSpecManifest ==
    /\ gmod_hd = [i \in Interfaces |-> 1]
    /\ InitConn
    /\ InitOp
    /\ InitManifest
    /\ InitLowmemIdle
    /\ InitUrbIdle

SpecManifest == InitSpecManifest /\ [][NextManifest]_vars

\* The parse of the manifests of fewer than MaxDescs descriptors.
InitSpecManifestFair ==
    /\ gmod_hd = [i \in Interfaces |-> 1]
    /\ InitConn
    /\ InitOp
    /\ InitManifestOn(Sources(MaxDescs - 1, 0))
    /\ InitLowmemIdle
    /\ InitUrbIdle

\* gb_manifest_parse is a sequential function that is running: its next
\* step is taken.
FairManifest == WF_vars(NextManifest)

SpecManifestFair ==
    InitSpecManifestFair /\ [][NextManifest]_vars /\ FairManifest

(* ------------------------- two parses at once -------------------------- *)

\* The manifests given to two parses that run at the same time: the
\* encodings of the modules whose serial number is zero.
ConcurrentSources ==
    {SrcModule(m, <<>>, <<>>, EnvDefault) :
        m \in {v \in ValidModules : v.serial_number = ZeroSerial}}

\* Both parsers enter gb_manifest_parse, each on its own buffer; the
\* descriptor list is empty.
InitConcurrent ==
    /\ manifest_descs = <<>>
    /\ \E f \in [Parsers -> ConcurrentSources] :
          parser = [p \in Parsers |->
                       [NoParse EXCEPT !.src = f[p],
                                       !.data = BufferOf(f[p]),
                                       !.size = Len(BufferOf(f[p])),
                                       !.ppc = "start"]]

\* gb_manifest_parse takes no lock: the steps of the two parses interleave
\* in any order.
NextConcurrent ==
    \E p \in Parsers :
        \/ ValidateEnvelope(p)
        \/ ScanStep(p)
        \/ FindModule(p)
        \/ ModuleAlloc(p)
        \/ VendorString(p)
        \/ ProductString(p)
        \/ ModuleFill(p)
        \/ Finish(p)
        \/ OutErr(p)
        \/ ModuleDescFreed(p)

InitSpecConcurrent ==
    /\ gmod_hd = [i \in Interfaces |-> 1]
    /\ InitConn
    /\ InitOp
    /\ InitConcurrent
    /\ InitLowmemIdle
    /\ InitUrbIdle

SpecConcurrent == InitSpecConcurrent /\ [][NextConcurrent]_vars

\* The connection side and the parser are idle during a lowmem_scan.
InitSpecLowmem ==
    /\ gmod_hd = [i \in Interfaces |-> 1]
    /\ InitConn
    /\ InitOp
    /\ InitManifestIdle
    /\ InitLowmem
    /\ InitUrbIdle

SpecLowmem == InitSpecLowmem /\ [][NextLowmem]_vars

\* The urb pool of one bound device; nothing else runs.
InitSpecUrb ==
    /\ gmod_hd = [i \in Interfaces |-> 1]
    /\ InitConn
    /\ InitOp
    /\ InitManifestIdle
    /\ InitLowmemIdle
    /\ InitUrb

SpecUrb == InitSpecUrb /\ [][NextUrb]_vars

\* A thread inside submit_gbuf goes on to usb_submit_urb, and the USB core
\* completes every urb it was given: the completion handler of a submitted
\* urb is called once, whatever the outcome of the transfer.  Nothing makes
\* a thread call submit_gbuf.
FairUrb ==
    /\ \A t \in Threads : WF_vars(UsbSubmitUrb(t))
    /\ \A u \in PoolUrbs \cup DynamicUrbs : WF_vars(cport_out_callback(u))

SpecUrbFair == InitSpecUrb /\ [][NextUrb]_vars /\ FairUrb

(* ------------------------------ properties ----------------------------- *)

\* The connection c is live: gb_connection_create has allocated its id and
\* gb_connection_destroy has not yet returned the id to the host.
Live(c) == conn[c].alloc

OnHdList(c) == \E h \in Hosts : InList(hd_connections[h], c)

OnIntfList(c) == \E i \in Interfaces : InList(intf_connections[i], c)

AllCPortIds == 0..(HOST_DEV_CPORT_ID_MAX - 1)

\* C1: whatever the interleaving of creates and destroys, two live
\* connections of one host never hold the same hd_cport_id.
C1_UniqueLocalIds ==
    \A c1, c2 \in Conns :
        (c1 # c2 /\ Live(c1) /\ Live(c2) /\ conn[c1].hd = conn[c2].hd)
            => conn[c1].hd_cport_id # conn[c2].hd_cport_id

\* Two creates on one host have both allocated their id and neither has
\* linked its connection yet.
C1_Witness ==
    \E t1, t2 \in Threads :
        /\ t1 # t2
        /\ pc[t1] = "c_lock"
        /\ pc[t2] = "c_lock"
        /\ conn[cur[t1]].hd = conn[cur[t2]].hd

\* C2 as stated: from the first list removal of a destroy until the id is
\* freed, no other thread's step changes the host's or the interface's list.
C2_DestroyAtomicWithIdFree ==
    [][\A t \in Threads :
          (pc[t] \in {"d_del_intf", "d_id_free"} /\ pc'[t] = pc[t])
              => UNCHANGED <<hd_connections, intf_connections>>]_vars

\* C2 amended: the two list removals of a destroy are one atomic unit (no
\* other thread's step changes either list between them); the id is freed
\* later, outside the lock, and is still allocated for as long as the
\* connection is on either list.
C2_ListRemovalAtomic ==
    /\ [][\A t \in Threads :
             (pc[t] = "d_del_intf" /\ pc'[t] = pc[t])
                 => UNCHANGED <<hd_connections, intf_connections>>]_vars
    /\ [](\A c \in Conns :
             (OnHdList(c) \/ OnIntfList(c))
                 => /\ Live(c)
                    /\ conn[c].hd_cport_id \in cport_id_map[conn[c].hd])

\* A destroy is between its two list removals while another thread waits for
\* the lock.
C2_Witness ==
    \E t, u \in Threads :
        /\ pc[t] = "d_del_intf"
        /\ pc[u] \in {"c_lock", "d_lock"}

\* C3: a connection is on the host's list and not on the interface's (or the
\* reverse) only inside the critical section of the thread that holds
\* gb_connections_lock, which no other create or destroy can enter.
C3_RegisteredAtomically ==
    /\ \A t \in Threads :
           pc[t] \in {"c_add_intf", "d_del_intf"} => gb_connections_lock = t
    /\ gb_connections_lock = Unlocked
           => \A c \in Conns :
                  /\ OnHdList(c) <=> OnIntfList(c)
                  /\ OnHdList(c)
                         => /\ InList(hd_connections[conn[c].hd], c)
                            /\ InList(intf_connections[conn[c].interface], c)

\* A create has linked its connection on the host's list only, and another
\* thread is waiting for the lock.
C3_Witness ==
    \E t, u \in Threads :
        /\ pc[t] = "c_add_intf"
        /\ OnHdList(cur[t])
        /\ ~OnIntfList(cur[t])
        /\ pc[u] \in {"c_lock", "d_lock"}

\* C4: a gb_connection_create that finds no CPort id free on its host
\* returns NULL, and its step leaves both lists, the allocated ids, the heap
\* and the set of held connections as they were.
C4_FailedCreateNoTrace ==
    [][\A t \in Threads :
          (/\ pc[t] = "c_alloc"
           /\ pc'[t] # "c_alloc"
           /\ cport_id_map[gmod_hd[args[t].interface]] = AllCPortIds)
              => /\ pc'[t] \in {"c_nocport", "c_enomem"}
                 /\ UNCHANGED <<hd_connections, intf_connections,
                                cport_id_map, conn, held>>]_vars

\* A create is about to return NULL because every id of its host is taken.
C4_Witness ==
    \E t \in Threads :
        /\ pc[t] = "c_nocport"
        /\ cport_id_map[gmod_hd[args[t].interface]] = AllCPortIds

\* C5: an allocation yields the lowest id of [0, HOST_DEV_CPORT_ID_MAX) that
\* is free on the host and marks it allocated; it fails only when every id
\* of the range is allocated.
C5_LowestFreeId ==
    [][\A t \in Threads :
          pc[t] = "c_alloc" =>
              LET h == gmod_hd[args[t].interface]
              IN  /\ pc'[t] = "c_lock" =>
                         LET id == conn'[cur'[t]].hd_cport_id
                         IN  /\ id \in AllCPortIds \ cport_id_map[h]
                             /\ \A j \in 0..(id - 1) : j \in cport_id_map[h]
                             /\ cport_id_map'[h] = cport_id_map[h] \cup {id}
                  /\ pc'[t] = "c_nocport" => cport_id_map[h] = AllCPortIds]_vars

\* A create is about to allocate on a host where id 0 has been freed while
\* id 1 is still allocated.
C5_Witness ==
    \E t \in Threads :
        /\ pc[t] = "c_alloc"
        /\ kzalloc # NULL
        /\ cport_id_map[gmod_hd[args[t].interface]] = {1}

\* C6: the ids allocated on a host are exactly the ids of its live
\* connections (none leaks, none is freed twice); an id leaves the map only
\* in the freeing step of the destroy of the connection that holds it, and
\* that step finds it allocated.
C6_IdFreedExactlyOnce ==
    /\ [](\A h \in Hosts :
             cport_id_map[h] =
                 {conn[c].hd_cport_id : c \in {x \in Conns :
                                                  Live(x) /\ conn[x].hd = h}})
    /\ [](\A t \in Threads :
             pc[t] = "d_id_free"
                 => conn[cur[t]].hd_cport_id \in cport_id_map[conn[cur[t]].hd])
    /\ [][\A h \in Hosts : \A k \in cport_id_map[h] :
             k \notin cport_id_map'[h]
                 => \E t \in Threads :
                        /\ pc[t] = "d_id_free"
                        /\ pc'[t] = "idle"
                        /\ conn[cur[t]].hd = h
                        /\ conn[cur[t]].hd_cport_id = k
                        /\ cport_id_map'[h] = cport_id_map[h] \ {k}]_vars

\* Every thread is idle, a connection holds id 1 and id 0 is free again: the
\* connection that held id 0 has been destroyed.
C6_Witness ==
    /\ \A t \in Threads : pc[t] = "idle"
    /\ cport_id_map[1] = {1}
    /\ \E c \in Conns : Live(c) /\ conn[c].hd = 1 /\ conn[c].hd_cport_id = 1

\* C7: a connection that gb_connection_destroy is tearing down has no
\* operation linked on its operations list.
C7_NoPendingAtDestroy ==
    \A t \in Threads :
        pc[t] \in {"d_lock", "d_del_intf", "d_id_free"}
            => list_empty(conn[cur[t]].operations)

\* C8: gb_connection_destroy of a connection with operations linked warns
\* and goes on to the lock; the run that warned ends with the connection off
\* both lists, its id returned to the host's map and the object freed.
C8_WarnAndProceed ==
    /\ [][\A t \in Threads : \A c \in Conns :
             (/\ pc[t] = "idle"
              /\ pc'[t] \in {"d_lock", "d_ret"}
              /\ cur'[t] = c)
                 => /\ pc'[t] = "d_lock"
                    /\ warned'[t] = ~list_empty(conn[c].operations)]_vars
    /\ [][\A t \in Threads :
             (warned[t] /\ pc[t] = "d_id_free" /\ pc'[t] # pc[t])
                 => LET c == cur[t]
                        h == conn[c].hd
                        id == conn[c].hd_cport_id
                    IN  /\ ~OnHdList(c)
                        /\ ~OnIntfList(c)
                        /\ id \in cport_id_map[h]
                        /\ cport_id_map'[h] = cport_id_map[h] \ {id}
                        /\ ~conn'[c].alloc
                        /\ pc'[t] = "idle"]_vars
    /\ [](\A t \in Threads :
             (warned[t] /\ pc[t] = "d_id_free")
                 => ~OnHdList(cur[t]) /\ ~OnIntfList(cur[t]))

\* A destroy that warned has unlinked the connection and is about to free
\* its id, the operation still being linked.
C8_Witness ==
    \E t \in Threads :
        /\ warned[t]
        /\ pc[t] = "d_id_free"
        /\ conn[cur[t]].operations = "pending"

\* C9: among 65536 consecutive calls of gb_connection_op_id on a connection
\* no call returns the value the first of them returned.
C9_NoRepeatIn65536Calls ==
    (op_window >= 2 /\ op_window <= 65536) => op_last # op_first

\* C10: each value gb_connection_op_id returns is the value of the call
\* before it plus one, modulo 65536.
C10_IncrementMod65536 ==
    op_calls >= 2 => op_last = (op_prev + 1) % 65536

(* ----------------------- properties of the parser ---------------------- *)

\* gb_manifest_parse has returned to the caller of parse p.
ParseDone(p) == ppc[p] = "done"

\* The size field of the envelope header of the buffer of parse p.
DeclaredSize(p) == le16_to_cpu(data[p], 0, 0)

\* The version_major field of the envelope header.
DeclaredMajor(p) == Rd(data[p], 2, 0)

\* The type field of the i-th descriptor parse p registered.
ScannedType(p, i) == le16_to_cpu(data[p], scanned[p][i][1] + 2, 0)

\* The number of Module descriptors parse p registered.
ModulesScanned(p) ==
    Cardinality({i \in 1..Len(scanned[p]) :
                    ScannedType(p, i) = GREYBUS_TYPE_MODULE})

\* The scanning loop of parse p has run to the end of the buffer.
ScanComplete(p) ==
    /\ ppc[p] \notin {"off", "start"}
    /\ desc[p] >= sizeof_manifest_header
    /\ size[p] = 0

\* The messages of the three envelope checks.
EnvelopeMsgs ==
    {"short manifest", "manifest size mismatch", "manifest version too new"}

\* C11: a buffer that holds a whole envelope header whose size field
\* differs from the buffer length never gets a descriptor registered, and
\* gb_manifest_parse returns NULL on it: with the size mismatch message when
\* the buffer is longer than the header, as a short manifest when it is the
\* header alone.
C11_SizeMismatchFails ==
    \A p \in Parsers :
        (/\ ppc[p] # "off"
         /\ Len(data[p]) >= sizeof_manifest_header
         /\ DeclaredSize(p) # Len(data[p]))
        => /\ scanned[p] = <<>>
           /\ manifest_descs = <<>>
           /\ ParseDone(p)
              => /\ ret[p] = RetNull
                 /\ msg[p] = IF Len(data[p]) > sizeof_manifest_header
                             THEN "manifest size mismatch"
                             ELSE "short manifest"

\* C11 witness: a parse of a buffer longer than the header has returned on
\* the size mismatch.
C11_Witness ==
    \E p \in Parsers :
        /\ ParseDone(p)
        /\ Len(data[p]) > sizeof_manifest_header
        /\ DeclaredSize(p) # Len(data[p])
        /\ msg[p] = "manifest size mismatch"
        /\ ret[p] = RetNull

\* C12: on a buffer no longer than the envelope header gb_manifest_parse
\* reads no byte of the buffer and registers no descriptor, and it returns
\* NULL with the short manifest message.
C12_TooShortFails ==
    \A p \in Parsers :
        (ppc[p] # "off" /\ Len(data[p]) <= sizeof_manifest_header)
        => /\ read_hi[p] = 0
           /\ scanned[p] = <<>>
           /\ manifest_descs = <<>>
           /\ ParseDone(p) => (ret[p] = RetNull /\ msg[p] = "short manifest")

\* C12 witness: a parse of a buffer of three bytes has returned.
C12_Witness ==
    \E p \in Parsers :
        /\ ParseDone(p)
        /\ Len(data[p]) = 3
        /\ msg[p] = "short manifest"
        /\ read_hi[p] = 0

\* C13: a manifest whose major version exceeds GREYBUS_VERSION_MAJOR never
\* gets a descriptor registered and gb_manifest_parse returns NULL on it
\* (with the version message when length and size field are in order); a
\* manifest whose length and size field are in order and whose major version
\* is at most GREYBUS_VERSION_MAJOR goes on to the scan, whatever its minor
\* version.
C13_VersionCheck ==
    \A p \in Parsers :
        /\ (/\ ppc[p] # "off"
            /\ Len(data[p]) >= sizeof_manifest_header
            /\ DeclaredMajor(p) > GREYBUS_VERSION_MAJOR)
           => /\ scanned[p] = <<>>
              /\ manifest_descs = <<>>
              /\ ParseDone(p)
                 => /\ ret[p] = RetNull
                    /\ msg[p] \in EnvelopeMsgs
                    /\ (/\ Len(data[p]) > sizeof_manifest_header
                        /\ DeclaredSize(p) = Len(data[p]))
                       => msg[p] = "manifest version too new"
        /\ (/\ ppc[p] \notin {"off", "start"}
            /\ Len(data[p]) > sizeof_manifest_header
            /\ DeclaredSize(p) = Len(data[p])
            /\ DeclaredMajor(p) <= GREYBUS_VERSION_MAJOR)
           => /\ msg[p] \notin EnvelopeMsgs
              /\ desc[p] >= sizeof_manifest_header

\* C13 witness: a manifest of a lower major version and a nonzero minor
\* version has been parsed into a module.
C13_Witness ==
    \E p \in Parsers :
        /\ ParseDone(p)
        /\ DeclaredMajor(p) < GREYBUS_VERSION_MAJOR
        /\ Rd(data[p], 3, 0) # 0
        /\ ret[p].k = "gmod"

\* C14: when the scan has run to the end of the buffer and the number of
\* Module descriptors registered is not one, gb_manifest_parse allocates no
\* module and returns NULL with the module count message; a module is
\* assembled or returned only when exactly one was registered.
C14_ExactlyOneModule ==
    \A p \in Parsers :
        /\ (ScanComplete(p) /\ ppc[p] # "scan" /\ ModulesScanned(p) # 1)
           => /\ ppc[p] \in {"out_err", "done"}
              /\ ~gmod[p].alloc
              /\ msg[p] = "manifest must have 1 module descriptor"
              /\ ParseDone(p) => ret[p] = RetNull
        /\ (\/ ppc[p] \in {"module", "vendor", "product", "fill", "excess"}
            \/ gmod[p].alloc
            \/ ret[p].k = "gmod")
           => ModulesScanned(p) = 1

\* C14 witness: a parse has returned after scanning two Module descriptors
\* to the end of the buffer.
C14_Witness ==
    \E p \in Parsers :
        /\ ParseDone(p)
        /\ ScanComplete(p)
        /\ ModulesScanned(p) = 2
        /\ ret[p] = RetNull

\* The i-th descriptor parse p registered: its offset, declared size, and,
\* for a String descriptor, its id, length and bytes.
ScannedOff(p, i) == scanned[p][i][1]

ScannedSize(p, i) == scanned[p][i][2]

ScannedStringId(p, i) ==
    Rd(data[p], ScannedOff(p, i) + sizeof_descriptor_header, 0)

ScannedString(p, i) ==
    LET first == ScannedOff(p, i) + sizeof_descriptor_header
                     + sizeof_descriptor_string
        len == le16_to_cpu(data[p],
                           ScannedOff(p, i) + sizeof_descriptor_header + 1, 0)
    IN SubSeq(data[p], first + 1, first + len)

\* s is what string id `id' of the manifest of parse p resolves to: no
\* string for id 0, else the whole string of a String descriptor registered
\* with that id.
ResolvedFrom(p, id, s) ==
    IF id = 0 THEN s = StrNull
    ELSE /\ s.k = "str"
         /\ \E i \in 1..Len(scanned[p]) :
               /\ ScannedType(p, i) = GREYBUS_TYPE_STRING
               /\ ScannedStringId(p, i) = id
               /\ s.s = ScannedString(p, i)

\* The number of strings a module owns.
StringsOf(m) ==
    (IF m.vendor_string.k = "str" THEN 1 ELSE 0)
        + (IF m.product_string.k = "str" THEN 1 ELSE 0)

\* m is the complete module of the Module descriptor at offset off, of
\* declared size dsize, of the manifest of parse p.
CompleteModule(p, off, dsize, m) ==
    LET f == off + sizeof_descriptor_header IN
    /\ m.alloc
    /\ m.vendor = le16_to_cpu(data[p], f, 0)
    /\ m.product = le16_to_cpu(data[p], f + 2, 0)
    /\ m.version = le16_to_cpu(data[p], f + 4, 0)
    /\ dsize >= sizeof_descriptor_header + sizeof_descriptor_module
       => m.serial_number = le64_to_cpu(data[p], f + 8, 0)
    /\ ResolvedFrom(p, Rd(data[p], f + 6, 0), m.vendor_string)
    /\ ResolvedFrom(p, Rd(data[p], f + 7, 0), m.product_string)

\* C15: gb_manifest_parse returns NULL or a complete module: its vendor,
\* product and version are those of the Module descriptor (and its serial
\* number, when the descriptor's declared size covers header and payload),
\* and each string is absent for string id 0 and otherwise the whole string
\* of a String descriptor of that id.  Once a string resolution has
\* failed the module is freed, no string got from kmemdup is left allocated,
\* and NULL is returned.
C15_NoPartialModule ==
    \A p \in Parsers :
        /\ ParseDone(p)
           => \/ /\ ret[p] = RetNull
                 /\ ~gmod[p].alloc
                 /\ kstrings[p] = 0
              \/ /\ ret[p].k = "gmod"
                 /\ str_err[p] = ""
                 /\ kstrings[p] = StringsOf(ret[p].mod)
                 /\ \E i \in 1..Len(scanned[p]) :
                       /\ ScannedType(p, i) = GREYBUS_TYPE_MODULE
                       /\ CompleteModule(p, ScannedOff(p, i),
                                         ScannedSize(p, i), ret[p].mod)
        /\ str_err[p] # ""
           => /\ ~gmod[p].alloc
              /\ kstrings[p] = 0
              /\ ret[p].k # "gmod"

\* C15 witness: the vendor string was resolved, the product string was not
\* found, and the parse has returned.
C15_Witness ==
    \E p \in Parsers :
        /\ ParseDone(p)
        /\ src[p].shape = <<"m12", "s1">>
        /\ str_err[p] = "ENOENT"
        /\ ret[p] = RetNull
        /\ kstrings[p] = 0

\* C16 as claimed: after a failed string resolution gb_manifest_parse
\* reports the error that gb_string_get returned.
C16_SameErrorReported ==
    \A p \in Parsers :
        (ParseDone(p) /\ str_err[p] # "") => ret[p].k = str_err[p]

\* C16 as amended: gb_string_get fails with ENOENT or with ENOMEM, and after
\* either gb_manifest_parse_module frees the module and gb_manifest_parse
\* returns NULL, the value it returns for every failure.
C16_StringErrorsReturnNull ==
    \A p \in Parsers :
        str_err[p] # ""
        => /\ str_err[p] \in {"ENOENT", "ENOMEM"}
           /\ gmod[p] = NoModule
           /\ ppc[p] \in {"excess", "done"}
           /\ ParseDone(p) => ret[p] = RetNull

\* C16 witness: kmemdup failed in gb_string_get and the parse has returned
\* NULL.
C16_Witness ==
    \E p \in Parsers :
        /\ ParseDone(p)
        /\ str_err[p] = "ENOMEM"
        /\ ret[p] = RetNull

\* C17: whenever gb_manifest_parse has returned NULL the descriptor list is
\* empty.
C17_FailureLeavesIndexEmpty ==
    \A p \in Parsers :
        (ParseDone(p) /\ ret[p] = RetNull) => manifest_descs = <<>>

\* C17 witness: a parse that had registered two descriptors has returned
\* NULL after an allocation failed.
C17_Witness ==
    \E p \in Parsers :
        /\ ParseDone(p)
        /\ ret[p] = RetNull
        /\ Len(scanned[p]) >= 2
        /\ nomem[p]
        /\ manifest_descs = <<>>

\* The module of the example: vendor 0x1234, product 0x5678, version 1,
\* serial number 0, no strings.
ExampleModule ==
    [ZeroModule EXCEPT !.vendor = 4660, !.product = 22136, !.version = 1]

\* The buffer of the example as written: an envelope that declares 23 bytes
\* and a Module descriptor that declares 15.
ExampleAsWritten ==
    ManifestHeader(23, 0, 1)
        \o Descriptor(15, GREYBUS_TYPE_MODULE,
                      ModulePayload(4660, 22136, 1, 0, 0, ZeroSerial))

\* The same manifest with the sizes of its layout: a descriptor of header
\* plus Module payload, and an envelope of header plus that descriptor.
ExampleResized ==
    ManifestHeader(sizeof_manifest_header + sizeof_descriptor_header
                       + sizeof_descriptor_module, 0, 1)
        \o Descriptor(sizeof_descriptor_header + sizeof_descriptor_module,
                      GREYBUS_TYPE_MODULE,
                      ModulePayload(4660, 22136, 1, 0, 0, ZeroSerial))

\* C18 as claimed: parsing the envelope {size 23, major 0, minor 1} followed
\* by the Module descriptor {size 15, type 1, ...} yields the example module.
C18_ExampleAsWritten ==
    \A p \in Parsers :
        (ParseDone(p) /\ data[p] = ExampleAsWritten)
        => ret[p] = RetModule(ExampleModule)

\* C18 as amended: with the envelope declaring 24 bytes and the Module
\* descriptor declaring 20, the parse yields the example module, unless the
\* allocation of a descriptor or of the module fails.
C18_ExampleResized ==
    \A p \in Parsers :
        (ParseDone(p) /\ data[p] = ExampleResized)
        => \/ ret[p] = RetModule(ExampleModule)
           \/ nomem[p] /\ ret[p] = RetNull

\* C18 witness: the resized example has been parsed into the module.
C18_Witness ==
    \E p \in Parsers :
        /\ ParseDone(p)
        /\ data[p] = ExampleResized
        /\ Len(data[p]) = 24
        /\ ret[p] = RetModule(ExampleModule)

CountOf(shape, name) ==
    Cardinality({i \in 1..Len(shape) : shape[i] = name})

\* C21: a manifest made of exactly one valid Module descriptor and of
\* Function descriptors of valid size parses successfully when no
\* allocation fails.
C21_FunctionRecognized ==
    \A p \in Parsers :
        (/\ ParseDone(p)
         /\ src[p].kind = "shape"
         /\ src[p].env = EnvDefault
         /\ \A i \in 1..Len(src[p].shape) : src[p].shape[i] \in {"m00", "f12"}
         /\ CountOf(src[p].shape, "m00") = 1
         /\ CountOf(src[p].shape, "f12") >= 1
         /\ ~nomem[p])
        => ret[p].k = "gmod"

\* C22: two parses running at the same time on different buffers do not
\* interfere: when a parse looks for its Module descriptor the list holds
\* descriptors of its own buffer only, and a parse of the encoding of a
\* module during which no allocation failed returns that module, as it does
\* when it runs alone.
C22_ParsesIndependent ==
    \A p \in Parsers :
        /\ (ppc[p] = "scan" /\ size[p] = 0)
           => \A i \in 1..Len(manifest_descs) : manifest_descs[i].buf = p
        /\ (ParseDone(p) /\ src[p].kind = "module" /\ ~nomem[p])
           => ret[p] = RetModule(src[p].m)

(* ---------------------- properties with several hosts ------------------ *)

\* Thread t is at its spin_lock_irq(&gb_connections_lock).
AtLock(t) == pc[t] \in {"c_lock", "d_lock"}

\* The host of the connection thread t is creating or destroying.
HostOf(t) == conn[cur[t]].hd

\* C23: a create or destroy that has reached its spin_lock_irq while another
\* thread holds the lock is waiting for a create or destroy on its own host.
C23_LockScopedToHost ==
    \A t \in Threads :
        (AtLock(t) /\ gb_connections_lock \notin {Unlocked, t})
        => HostOf(gb_connections_lock) = HostOf(t)

(* ---------------------- properties of lowmem_scan ---------------------- *)

\* The number of levels lowmem_scan looks at.
ScanLevels ==
    MinOf(MinOf(lmk.in.lowmem_adj_size, lmk.in.lowmem_minfree_size),
          LOWMEM_ARRAY_SIZE)

\* The levels at which both page counts are below lowmem_minfree[i].
LowLevels ==
    {i \in 0..(ScanLevels - 1) :
        /\ lmk.other_free < At(lmk.in.lowmem_minfree, i)
        /\ lmk.other_file < At(lmk.in.lowmem_minfree, i)}

\* The threshold loop of the lowmem_scan call is over.
ThresholdChosen == lmk.lpc \in {"tasks", "done"}

\* C24: once the threshold loop is over, min_score_adj is lowmem_adj[i] for
\* the smallest i below min(lowmem_adj_size, lowmem_minfree_size, 6) at
\* which other_free and other_file are both below lowmem_minfree[i]; when
\* there is no such i the call is over, has killed no process and returns
\* SHRINK_STOP.
C24_ThresholdChoice ==
    ThresholdChosen
    => IF LowLevels # {}
       THEN lmk.min_score_adj = At(lmk.in.lowmem_adj, Min(LowLevels))
       ELSE /\ lmk.lpc = "done"
            /\ lmk.kills = <<>>
            /\ lmk.ret = SHRINK_STOP

\* C24 witness: a call is over that chose the threshold of level 2, the
\* counts being not both below the levels before it, and killed a process.
C24_Witness ==
    /\ lmk.lpc = "done"
    /\ LowLevels # {}
    /\ Min(LowLevels) = 2
    /\ lmk.min_score_adj = At(lmk.in.lowmem_adj, 2)
    /\ lmk.kills # <<>>

\* The size field of the header of the i-th descriptor parse p registered.
ScannedDeclared(p, i) == le16_to_cpu(data[p], ScannedOff(p, i), 0)

\* C25: when the scanning loop has run to the end of the buffer, the
\* descriptors it registered tile the bytes after the envelope header: the
\* first begins right after the header, each is registered with the size
\* its header declares, which is positive, each begins where the one before
\* it ends, and the last ends at the end of the buffer.
C25_DescriptorsTile ==
    \A p \in Parsers :
        ScanComplete(p)
        => LET n == Len(scanned[p]) IN
           /\ n > 0
           /\ ScannedOff(p, 1) = sizeof_manifest_header
           /\ \A i \in 1..n :
                 /\ ScannedSize(p, i) = ScannedDeclared(p, i)
                 /\ ScannedSize(p, i) > 0
           /\ \A i \in 1..(n - 1) :
                 ScannedOff(p, i + 1) = ScannedOff(p, i) + ScannedSize(p, i)
           /\ ScannedOff(p, n) + ScannedSize(p, n) = Len(data[p])

\* C25 witness: a scan of three descriptors has run to the end of the
\* buffer, one of them a Device descriptor that declares two bytes.
C25_Witness ==
    \E p \in Parsers :
        /\ ScanComplete(p)
        /\ Len(scanned[p]) = 3
        /\ \E i \in 1..3 : ScannedSize(p, i) = 2
        /\ ScannedOff(p, 3) + ScannedSize(p, 3) = Len(data[p])

\* The size field of the header at the descriptor parse p scans next.
NextDeclared(p) == le16_to_cpu(data[p], desc[p], 0)

\* A step of parse p from inside its scanning loop.
ScanIteration(p) ==
    /\ ppc[p] = "scan"
    /\ size[p] # 0
    /\ parser'[p] # parser[p]

\* Every iteration of the scanning loop aborts the parse or leaves fewer
\* bytes to scan, never less than none; one that meets a header declaring
\* size zero aborts.
ScanProgress ==
    \A p \in Parsers :
        ScanIteration(p)
        => /\ \/ ppc'[p] = "out_err"
              \/ ppc'[p] = "scan" /\ size'[p] < size[p] /\ size'[p] >= 0
           /\ (size[p] >= sizeof_descriptor_header /\ NextDeclared(p) = 0)
              => ppc'[p] = "out_err"

\* C26: the scanning loop of gb_manifest_parse terminates on every buffer:
\* each iteration aborts the parse or strictly decreases the remaining byte
\* count, a descriptor declaring size zero aborts the parse, and a parse that
\* is in the loop gets out of it.
C26_ScanTerminates ==
    /\ [][ScanProgress]_vars
    /\ \A p \in Parsers : (ppc[p] = "scan") ~> (ppc[p] # "scan")

\* C26 witness: a parse has returned that registered two descriptors and
\* aborted on the second, which declares size zero.
C26_Witness ==
    \E p \in Parsers :
        /\ ParseDone(p)
        /\ Len(scanned[p]) = 2
        /\ ScannedSize(p, 2) = 0
        /\ msg[p] = "zero-sized manifest descriptor"
        /\ ret[p] = RetNull

\* The scanning loop of parse p has started.
ScanStarted(p) == desc[p] >= sizeof_manifest_header

\* Parse p cannot get past the bytes at desc: if it has left the scanning
\* loop it has failed with message m, and no descriptor is registered there.
ScanStopsWith(p, m) ==
    /\ ppc[p] \in {"scan", "out_err", "done"}
    /\ ppc[p] # "scan" => msg[p] = m
    /\ ParseDone(p) => ret[p] = RetNull
    /\ \A i \in 1..Len(scanned[p]) : ScannedOff(p, i) # desc[p]

\* C27: every descriptor the scanner registers ends inside the buffer; the
\* scan fails where fewer bytes remain than a descriptor header, and where
\* the header declares more bytes than remain.
C27_NoDescriptorPastEnd ==
    \A p \in Parsers :
        ScanStarted(p)
        => /\ \A i \in 1..Len(scanned[p]) :
                 ScannedOff(p, i) + ScannedSize(p, i) <= Len(data[p])
           /\ (size[p] > 0 /\ size[p] < sizeof_descriptor_header)
              => ScanStopsWith(p, "manifest too small")
           /\ (size[p] >= sizeof_descriptor_header
                  /\ NextDeclared(p) > size[p])
              => ScanStopsWith(p, "descriptor too big")

\* C27 witness: a parse has returned that registered a descriptor and then
\* met a header declaring more bytes than remained.
C27_Witness ==
    \E p \in Parsers :
        /\ ParseDone(p)
        /\ Len(scanned[p]) >= 1
        /\ size[p] >= sizeof_descriptor_header
        /\ NextDeclared(p) > size[p]
        /\ msg[p] = "descriptor too big"

\* The length field of the i-th descriptor parse p registered, read as that
\* of a String descriptor.
ScannedStringLength(p, i) ==
    le16_to_cpu(data[p], ScannedOff(p, i) + sizeof_descriptor_header + 1, 0)

\* The bytes a descriptor of the type of the i-th registered descriptor
\* needs: the header and the fixed fields of the type, and for a String
\* descriptor the string's bytes as well.
MinimumSize(p, i) ==
    sizeof_descriptor_header
        + (IF ScannedType(p, i) = GREYBUS_TYPE_MODULE
           THEN sizeof_descriptor_module
           ELSE IF ScannedType(p, i) = GREYBUS_TYPE_CPORT
           THEN sizeof_descriptor_cport
           ELSE IF ScannedType(p, i) = GREYBUS_TYPE_STRING
           THEN sizeof_descriptor_string + ScannedStringLength(p, i)
           ELSE 0)

\* C28: every Module, CPort or String descriptor in the index declares at
\* least the bytes its type needs.
C28_MinimumSizes ==
    \A p \in Parsers :
        \A i \in 1..Len(scanned[p]) :
            ScannedType(p, i) \in {GREYBUS_TYPE_MODULE, GREYBUS_TYPE_CPORT,
                                   GREYBUS_TYPE_STRING}
            => ScannedSize(p, i) >= MinimumSize(p, i)

\* The type field of the header at the descriptor parse p scans next.
NextType(p) == le16_to_cpu(data[p], desc[p] + 2, 0)

\* The enumerants of the descriptor type.
DescriptorTypes ==
    {GREYBUS_TYPE_MODULE, GREYBUS_TYPE_DEVICE, GREYBUS_TYPE_CLASS,
     GREYBUS_TYPE_STRING, GREYBUS_TYPE_CPORT, GREYBUS_TYPE_FUNCTION}

\* An iteration of the scanning loop on a header that fits in the remaining
\* bytes: if its type is no enumerant the parse aborts with "invalid
\* descriptor type" and registers nothing; if it is a Class descriptor of a
\* size above zero whose allocation succeeds, the parse stays in the loop,
\* has registered the descriptor, and has moved desc and size by the size
\* the descriptor declares.
UnknownAndClass ==
    \A p \in Parsers :
        (/\ ScanIteration(p)
         /\ size[p] >= sizeof_descriptor_header
         /\ NextDeclared(p) <= size[p])
        => /\ NextType(p) \notin DescriptorTypes
              => /\ ppc'[p] = "out_err"
                 /\ msg'[p] = "invalid descriptor type"
                 /\ manifest_descs' = manifest_descs
           /\ (/\ NextType(p) = GREYBUS_TYPE_CLASS
               /\ NextDeclared(p) > 0
               /\ ~nomem'[p])
              => /\ ppc'[p] = "scan"
                 /\ desc'[p] = desc[p] + NextDeclared(p)
                 /\ size'[p] = size[p] - NextDeclared(p)
                 /\ Len(manifest_descs') = Len(manifest_descs) + 1
                 /\ msg'[p] = "class descriptor found (ignoring)"

\* C29: a descriptor whose type is no enumerant (0 included) aborts the
\* parse, which returns NULL; a Class descriptor does not: the scan goes on
\* at the byte its declared size leads to.
C29_UnknownAbortsClassContinues ==
    /\ [][UnknownAndClass]_vars
    /\ [](\A p \in Parsers :
             (ParseDone(p) /\ msg[p] = "invalid descriptor type")
             => ret[p] = RetNull)

\* C29 witness: a parse has returned whose scan registered a Class
\* descriptor that declares more bytes than a header, and then another
\* descriptor where the declared size leads to.
C29_Witness ==
    \E p \in Parsers :
        /\ ParseDone(p)
        /\ msg[p] # "invalid descriptor type"
        /\ \E i \in 1..(Len(scanned[p]) - 1) :
              /\ ScannedType(p, i) = GREYBUS_TYPE_CLASS
              /\ ScannedSize(p, i) > sizeof_descriptor_header
              /\ ScannedOff(p, i + 1) = ScannedOff(p, i) + ScannedSize(p, i)

\* A call of gb_string_get by parse p: the step that resolves the vendor or
\* the product string id of its Module descriptor.
StringStep(p) ==
    /\ ppc[p] \in {"vendor", "product"}
    /\ parser'[p] # parser[p]

\* The string id that call resolves.
StringId(p) ==
    Rd(data[module_desc[p].buf],
       ModuleField(module_desc[p], IF ppc[p] = "vendor" THEN 6 ELSE 7), 0)

\* The String descriptors of the list whose id is string_id.
StringsWithId(string_id) ==
    {i \in 1..Len(manifest_descs) :
        /\ manifest_descs[i].type = GREYBUS_TYPE_STRING
        /\ Rd(data[manifest_descs[i].buf],
              manifest_descs[i].data + sizeof_descriptor_header, 0)
               = string_id}

\* C30: gb_string_get(0) returns NULL, "no string", whatever the list
\* holds: the caller stores NULL and goes on without an error, and the list
\* is as it was.
C30_StringIdZero ==
    [][\A p \in Parsers :
          (StringStep(p) /\ StringId(p) = 0)
          => /\ manifest_descs' = manifest_descs
             /\ str_err'[p] = str_err[p]
             /\ nomem'[p] = nomem[p]
             /\ kstrings'[p] = kstrings[p]
             /\ ppc[p] = "vendor"
                => /\ gmod'[p].vendor_string = StrNull
                   /\ ppc'[p] = "product"
             /\ ppc[p] = "product"
                => /\ gmod'[p].product_string = StrNull
                   /\ ppc'[p] = "fill"]_vars

\* C30 witness: a parse has resolved vendor string id 0 to NULL while the
\* list held a String descriptor whose id is 0, which is still there.
C30_Witness ==
    \E p \in Parsers :
        /\ ppc[p] = "product"
        /\ gmod[p].vendor_string = StrNull
        /\ StringsWithId(0) # {}
        /\ StringId(p) = 0

(* --------------------- properties of string resolution ----------------- *)

\* The vendor string id of the Module descriptor of parse p.
VendorId(p) ==
    Rd(data[module_desc[p].buf], ModuleField(module_desc[p], 6), 0)

\* The number of String descriptors with the given id parse p registered.
ScannedWithId(p, string_id) ==
    Cardinality({i \in 1..Len(scanned[p]) :
                    /\ ScannedType(p, i) = GREYBUS_TYPE_STRING
                    /\ ScannedStringId(p, i) = string_id})

\* The call of gb_string_get for the product string, made after the vendor
\* string was resolved from the same nonzero id.
SecondResolution(p) ==
    /\ StringStep(p)
    /\ ppc[p] = "product"
    /\ StringId(p) # 0
    /\ StringId(p) = VendorId(p)
    /\ gmod[p].vendor_string.k = "str"

\* C31 as stated: the second resolution of a string id that was resolved
\* once fails with -ENOENT.
C31_SecondResolutionFails ==
    [][\A p \in Parsers :
          SecondResolution(p)
          => /\ str_err'[p] = "ENOENT"
             /\ ppc'[p] = "excess"]_vars

\* C31: a resolution of a string id consumes one String descriptor with
\* that id: at the second resolution the list holds one fewer than the scan
\* registered; the second resolution fails with -ENOENT when none is left,
\* and is served by another descriptor with the same id when one is.
C31_ResolutionConsumesOne ==
    [][\A p \in Parsers :
          SecondResolution(p)
          => /\ Cardinality(StringsWithId(StringId(p)))
                    = ScannedWithId(p, StringId(p)) - 1
             /\ StringsWithId(StringId(p)) = {}
                => /\ str_err'[p] = "ENOENT"
                   /\ ppc'[p] = "excess"
                   /\ gmod'[p] = NoModule
                   /\ manifest_descs' = manifest_descs
             /\ StringsWithId(StringId(p)) # {}
                => /\ str_err'[p] # "ENOENT"
                   /\ ~nomem'[p]
                      => /\ gmod'[p].product_string.k = "str"
                         /\ Len(manifest_descs') = Len(manifest_descs) - 1]_vars

\* C31 witness: the product resolution has just failed with -ENOENT in a
\* parse whose only String descriptor with that id went to the vendor
\* string.
C31_Witness ==
    \E p \in Parsers :
        /\ ppc[p] = "excess"
        /\ str_err[p] = "ENOENT"
        /\ VendorId(p) # 0
        /\ ScannedWithId(p, VendorId(p)) = 1
        /\ kstrings[p] = 0
        /\ Rd(data[module_desc[p].buf], ModuleField(module_desc[p], 7), 0)
               = VendorId(p)

(* ------------------- properties of connection set-up ------------------- *)

\* C32: a connection that a thread can find on a connection list, the lock
\* being free for it to take, has had its operation list and its operation
\* counter initialized.
C32_InitializedBeforeReachable ==
    \A c \in Conns :
        (gb_connections_lock = Unlocked /\ (OnHdList(c) \/ OnIntfList(c)))
        => conn[c].operations # "zeroed"

\* C33: under every interleaving of creates and destroys, each connection
\* linked on a host's connection list belongs to that host and holds an id
\* that is allocated in the host's cport_id_map, and no two connections of
\* the list hold the same id.
C33_ListedIdsAllocatedDistinct ==
    \A h \in Hosts :
        /\ \A c \in hd_connections[h] :
              /\ conn[c].alloc
              /\ conn[c].hd = h
              /\ conn[c].hd_cport_id \in cport_id_map[h]
        /\ \A c1, c2 \in hd_connections[h] :
              c1 # c2 => conn[c1].hd_cport_id # conn[c2].hd_cport_id

\* C33 witness: a host's list holds a connection while a destroy of another
\* connection of that host has unlinked it and not yet freed its id: both
\* ids of the host are allocated and one of them is listed.
C33_Witness ==
    \E h \in Hosts, t \in Threads :
        /\ hd_connections[h] # {}
        /\ pc[t] = "d_id_free"
        /\ conn[cur[t]].hd = h
        /\ ~InList(hd_connections[h], cur[t])
        /\ Cardinality(cport_id_map[h]) = Cardinality(hd_connections[h]) + 1

\* The String descriptor of the list that gb_string_get matches for the
\* given id: the first with that id.
MatchedString(string_id) == manifest_descs[Min(StringsWithId(string_id))]

\* The offset of the byte after the bytes descriptor d declares.
DescEnd(d) == d.data + d.size

\* C34: a call of gb_string_get that matches a String descriptor reads no
\* byte of the buffer at or beyond the end of that descriptor (beyond what
\* the parse read before, and the string id field of the Module descriptor).
C34_StringReadInsideDescriptor ==
    [][\A p \in Parsers :
          (/\ StringStep(p)
           /\ StringId(p) # 0
           /\ StringsWithId(StringId(p)) # {})
          => read_hi'[p]
                 <= Max(Max(read_hi[p], DescEnd(module_desc[p])),
                        DescEnd(MatchedString(StringId(p))))]_vars

\* C35: every descriptor the scanner registers declares at least the size
\* of a descriptor header, so that every advance of the scan is by a whole
\* header at least.
C35_AtLeastHeader ==
    /\ \A p \in Parsers :
          \A i \in 1..Len(scanned[p]) :
              ScannedSize(p, i) >= sizeof_descriptor_header
    /\ \A p \in Parsers :
          \A i \in 1..(Len(scanned[p]) - 1) :
              ScannedOff(p, i + 1) - ScannedOff(p, i)
                  >= sizeof_descriptor_header

\* The product string id of the Module descriptor of parse p.
ProductId(p) ==
    Rd(data[module_desc[p].buf], ModuleField(module_desc[p], 7), 0)

\* The Module descriptor of parse p names one nonzero string id for both of
\* its strings, and the manifest holds exactly one String descriptor with
\* that id.
SameIdTwice(p) ==
    /\ module_desc[p] # NoDesc
    /\ VendorId(p) # 0
    /\ ProductId(p) = VendorId(p)
    /\ ScannedWithId(p, VendorId(p)) = 1

\* C36: a parse of such a manifest returns no module; unless an allocation
\* failed first, it is the product resolution that fails, with -ENOENT,
\* and the vendor string it had obtained is freed.
C36_SameIdTwiceFails ==
    \A p \in Parsers :
        (ParseDone(p) /\ SameIdTwice(p))
        => /\ ret[p] = RetNull
           /\ kstrings[p] = 0
           /\ ~nomem[p] => str_err[p] = "ENOENT"

\* C36 witness: a parse of such a manifest has returned NULL with every
\* allocation successful, after the product resolution found no descriptor.
C36_Witness ==
    \E p \in Parsers :
        /\ ParseDone(p)
        /\ SameIdTwice(p)
        /\ ~nomem[p]
        /\ str_err[p] = "ENOENT"
        /\ ret[p] = RetNull
        /\ manifest_descs = <<>>

(* ----------------------- properties of the urb pool -------------------- *)

\* The urbs of the pool that a thread inside submit_gbuf has taken and not
\* yet passed to usb_submit_urb.
UrbsBeingSubmitted ==
    {es1.urb[t] : t \in {x \in Threads : es1.spc[x] = "submit"}} \cap PoolUrbs

\* C37: every urb of the pool that is marked busy is marked free again
\* later, and the urbs marked busy are never more than those the USB core
\* holds plus those about to be submitted.
C37_BusyUrbsReturn ==
    /\ [](Cardinality(BusyUrbs)
              <= Cardinality(es1.submitted \cap PoolUrbs)
                     + Cardinality(UrbsBeingSubmitted))
    /\ \A i \in PoolUrbs :
          es1.cport_out_urb_busy[i] ~> ~es1.cport_out_urb_busy[i]

(* ------------------ properties of the process selection ---------------- *)

\* The processes of the scan, by position in the process list.
ScanTasks == 1..Len(lmk.in.tasks)

\* Process i is eligible as the claim defines it: its oom_score_adj is at
\* least the threshold and its task size is positive, and it is neither a
\* kernel thread nor in the caller's thread group.  A process without an mm
\* has no task size.
Eligible(i) ==
    LET p == lmk.in.tasks[i] IN
        /\ ~p.kthread
        /\ ~p.current
        /\ p.mm
        /\ p.size > 0
        /\ p.adj >= lmk.min_score_adj

\* Process i is one lowmem_scan can select: eligible, and not passed over by
\* the tests of TIF_MEMALLOC, TIF_MEMDIE, TASK_UNINTERRUPTIBLE and
\* CONFIG_LMK_SKIP_KILL.
Selectable(i) ==
    LET p == lmk.in.tasks[i] IN
        /\ Eligible(i)
        /\ ~p.memalloc
        /\ ~p.memdie
        /\ ~p.unint
        /\ ~(p.adj = SkipKillAdj /\ p.skip_kill)

\* Process k is not below process j: a higher oom_score_adj, or the same
\* with a task size at least as large.
NotBelow(k, j) ==
    \/ lmk.in.tasks[j].adj < lmk.in.tasks[k].adj
    \/ /\ lmk.in.tasks[j].adj = lmk.in.tasks[k].adj
       /\ lmk.in.tasks[j].size <= lmk.in.tasks[k].size

\* The scan returned early because it met a process that is already dying
\* and whose death is still awaited.
DeathPending ==
    /\ lmk.in.deathpending
    /\ \E i \in ScanTasks :
          /\ lmk.in.tasks[i].memdie
          /\ ~lmk.in.tasks[i].kthread
          /\ ~lmk.in.tasks[i].memalloc
          /\ lmk.in.tasks[i].mm

\* C38 as stated: a finished lowmem_scan has killed at most one process,
\* and the one it killed is eligible and not below any eligible process.
C38_KillsBestEligible ==
    lmk.lpc = "done"
    => /\ Len(lmk.kills) <= 1
       /\ \A n \in 1..Len(lmk.kills) :
             /\ Eligible(lmk.kills[n])
             /\ \A j \in ScanTasks :
                   Eligible(j) => NotBelow(lmk.kills[n], j)

\* C38: a finished lowmem_scan has killed at most one process; the one it
\* killed is selectable and not below any selectable process, and the scan
\* returns its size.  A scan that chose a threshold, did not stop at a dying
\* process and met a selectable process has killed one.
C38_KillsBestSelectable ==
    lmk.lpc = "done"
    => /\ Len(lmk.kills) <= 1
       /\ \A n \in 1..Len(lmk.kills) :
             /\ Selectable(lmk.kills[n])
             /\ \A j \in ScanTasks :
                   Selectable(j) => NotBelow(lmk.kills[n], j)
             /\ lmk.ret = lmk.in.tasks[lmk.kills[n]].size
       /\ (/\ lmk.min_score_adj # OOM_SCORE_ADJ_MAX + 1
           /\ ~DeathPending
           /\ \E j \in ScanTasks : Selectable(j))
          => Len(lmk.kills) = 1

\* C38 witness: a scan has killed the second of two processes with the same
\* oom_score_adj, the larger one.
C38_Witness ==
    /\ lmk.lpc = "done"
    /\ lmk.kills = <<2>>
    /\ Selectable(1)
    /\ lmk.in.tasks[1].adj = lmk.in.tasks[2].adj
    /\ lmk.in.tasks[1].size < lmk.in.tasks[2].size

====
